---- MODULE Spec2Model ----
(***************************************************************************)
(* Model of the Mutasiku Telegram bot: the SQLite session store, the       *)
(* session manager built on it (src/index.js), the password gate           *)
(* (src/lib/authHandler.js), the session helpers (src/lib/sessionUtils.js) *)
(* and the command / callback / text / photo handlers of src/index.js.     *)
(*                                                                         *)
(* Time is Date.now() in milliseconds.  A handler runs at one instant: all *)
(* Date.now() calls of one handler read the same value of the clock.       *)
(***************************************************************************)
EXTENDS Integers, FiniteSets, Sequences, TLC

VARIABLES
  sessions,   \* the rows of table "sessions"
  now,        \* Date.now()
  ticks,      \* how many times the clock has advanced
  ev,         \* the last operation handled: [name, chat, arg]
  api,        \* the financial API calls that operation issued
  ret,        \* what that operation returned / replied
  lockUntil,  \* history: per chat, the last blockedUntil stamped (0: none)
  authAt,     \* history: per chat, time of the last successful authenticateUser (-1: none)
  fails,      \* history: per chat, wrong passwords since the last success / record-free start
  steps,      \* how many updates the bot has handled and clock advances it has seen
  inflight,   \* the calls that are suspended at an await: what each holds in its locals
  limit,      \* how many updates and clock advances this run of the bot is followed for
  env         \* process.env: MAX_LOGIN_ATTEMPTS as parseInt reads it (0: unset, not a number or 0)

vars == <<sessions, now, ticks, ev, api, ret, lockUntil, authAt, fails, steps, inflight, limit, env>>

-----------------------------------------------------------------------------
(* Program constants *)

MsPerMinute == 60000
DefaultSessionMinutes == 15
MaxAttempts == 3
TimeoutMinutes == 30
AuthSessionMinutes == 1440

\* const maxAttempts = parseInt(process.env.MAX_LOGIN_ATTEMPTS) || 3
maxAttempts == IF env.MAX_LOGIN_ATTEMPTS = 0 THEN MaxAttempts ELSE env.MAX_LOGIN_ATTEMPTS
\* texts are sequences of one-character strings
BOT_PASSWORD == <<"p", "w", "1">>

(* Bounds of the model *)
MaxTicks == 3
MaxStore == 3
MaxOver == 1    \* wrong passwords counted beyond MaxAttempts
MaxPage == 1    \* bank_page:<n> buttons pressed
MaxSteps == 5   \* updates handled and clock advances in one run

AllChats == {"c1", "c2"}
Chats == {"c1"}
Passwords == {BOT_PASSWORD, <<"x">>}

\* the amounts by which the clock advances between two operations
TickDeltas == {1, DefaultSessionMinutes * MsPerMinute, AuthSessionMinutes * MsPerMinute}

NoType == "*"
NoState == "<unchanged>"
NoData == [k \in {} |-> TRUE]

-----------------------------------------------------------------------------
(* Session manager: initializeSessionManager(db) *)

SessionId(c, ty, t) == <<c, ty, t>>

\* a query that still sees a row at the instant of its expiry
VisibleAtExpiry(S, c, t) == {s \in S : s.chatId = c /\ s.expires >= t}

\* rows an "expires > now" query sees for a chat
Visible(S, c, t) == {s \in S : s.chatId = c /\ s.expires > t}

\* ORDER BY createdAt DESC LIMIT 1: every row with the greatest createdAt may be the one returned
Newest(R) == {s \in R : \A r \in R : r.createdAt <= s.createdAt}

\* getSession(chatId, type = null): the rows it may return; {} is null
GetSession(S, c, ty, t) ==
  Newest({s \in Visible(S, c, t) : ty = NoType \/ s.type = ty})

\* createSession: INSERT fails on a duplicate primary key
CanCreate(S, c, ty, t) == \A s \in S : s.id # SessionId(c, ty, t)

NewSession(c, ty, d, t) ==
  [id |-> SessionId(c, ty, t), chatId |-> c, type |-> ty, state |-> "",
   data |-> [k \in DOMAIN d |-> d[k]],
   expires |-> t + DefaultSessionMinutes * MsPerMinute, createdAt |-> t]

CreateSession(S, c, ty, d, t) == S \cup {NewSession(c, ty, d, t)}

\* an update that replaces the stored data by the new data
MergeDataReplacesData(old, set, drop) ==
  [k \in DOMAIN set \ drop |-> set[k]]

\* { ...old, ...new } followed by JSON.stringify, which drops the keys whose value is undefined
MergeData(old, set, drop) ==
  [k \in (DOMAIN old \cup DOMAIN set) \ drop |->
     IF k \in DOMAIN set THEN set[k] ELSE old[k]]

UpdatedRow(s, st, set, drop) ==
  [s EXCEPT !.state = IF st = NoState THEN s.state ELSE st,
            !.data = MergeData(s.data, set, drop)]

\* updateSession(sessionId, updates): SELECT by id (no expiry test), merge, UPDATE
UpdateSession(S, id, st, set, drop) ==
  {IF s.id = id THEN UpdatedRow(s, st, set, drop) ELSE s : s \in S}

DeleteSession(S, id) == {s \in S : s.id # id}

\* a delete by type that forgets the chat
DeleteSessionsByTypeOfAllChats(S, c, ty) == {s \in S : s.type # ty}

DeleteSessionsByType(S, c, ty) == {s \in S : ~(s.chatId = c /\ s.type = ty)}

ExtendSession(S, id, minutes, t) ==
  {IF s.id = id THEN [s EXCEPT !.expires = t + minutes * MsPerMinute] ELSE s : s \in S}

\* a sweep that also removes the rows expiring at this instant
SweepExpiredAtExpiry(S, t) == {s \in S : s.expires > t}

\* setupSessionCleanup: DELETE FROM sessions WHERE expires < now
SweepExpired(S, t) == {s \in S : ~(s.expires < t)}

-----------------------------------------------------------------------------
(* Authentication: src/lib/authHandler.js *)

IsUserAuthenticated(S, c, t) ==
  \E s \in GetSession(S, c, "authenticated", t) :
     "authenticated" \in DOMAIN s.data /\ s.data["authenticated"] = TRUE

Attempts(s) == IF "attempts" \in DOMAIN s.data THEN s.data["attempts"] ELSE 0

\* the store after trackFailedAttempt
TrackFailedAttempt(S, c, t) ==
  LET found == GetSession(S, c, "auth_attempts", t) IN
  IF found = {}
    THEN CreateSession(S, c, "auth_attempts", [attempts |-> 1, lastAttempt |-> t], t)
    ELSE LET s == CHOOSE x \in found : TRUE
             attempts == Attempts(s) + 1
         IN  IF attempts >= maxAttempts
               THEN UpdateSession(S, s.id, NoState,
                      [attempts |-> attempts, lastAttempt |-> t,
                       blockedUntil |-> t + TimeoutMinutes * MsPerMinute], {})
               ELSE UpdateSession(S, s.id, NoState,
                      [attempts |-> attempts, lastAttempt |-> t], {"blockedUntil"})

\* clearFailedAttempts that deletes nothing
ClearFailedAttemptsKeepsRecord(S, c) == S

ClearFailedAttempts(S, c) == DeleteSessionsByType(S, c, "auth_attempts")

\* createAuthenticatedSession without the deleteSessionsByType call
CreateAuthenticatedSessionKeepsOld(S, c, t) ==
  LET S2 == CreateSession(S, c, "authenticated", [authenticated |-> TRUE, loginTime |-> t], t)
  IN  {IF s.id = SessionId(c, "authenticated", t)
         THEN [s EXCEPT !.expires = t + AuthSessionMinutes * MsPerMinute] ELSE s : s \in S2}

CreateAuthenticatedSession(S, c, t) ==
  LET S1 == DeleteSessionsByType(S, c, "authenticated")
      S2 == CreateSession(S1, c, "authenticated", [authenticated |-> TRUE, loginTime |-> t], t)
  IN  ExtendSession(S2, SessionId(c, "authenticated", t), AuthSessionMinutes, t)

\* authenticateUser: [success, S]
AuthenticateUser(S, c, password, t) ==
  IF BOT_PASSWORD = <<>>
    THEN [success |-> FALSE, S |-> S]
    ELSE IF password # BOT_PASSWORD
      THEN [success |-> FALSE, S |-> TrackFailedAttempt(S, c, t)]
      ELSE [success |-> TRUE, S |-> CreateAuthenticatedSession(ClearFailedAttempts(S, c), c, t)]

\* Math.ceil(x / y) for x >= 0, y > 0
CeilDiv(x, y) == (x + y - 1) \div y

\* isUserBlocked: the object returned (has: the fields it carries) and the store afterwards
IsUserBlocked(S, c, t) ==
  LET found == GetSession(S, c, "auth_attempts", t) IN
  IF found = {}
    THEN [blocked |-> FALSE, has |-> {}, remainingMinutes |-> 0, attemptsLeft |-> 0, S |-> S]
    ELSE LET s == CHOOSE x \in found : TRUE IN
         IF Attempts(s) >= maxAttempts /\ "blockedUntil" \in DOMAIN s.data
           THEN IF t < s.data["blockedUntil"]
                  THEN [blocked |-> TRUE, has |-> {"remainingMinutes", "message"},
                        remainingMinutes |-> CeilDiv(s.data["blockedUntil"] - t, MsPerMinute),
                        attemptsLeft |-> 0, S |-> S]
                  ELSE [blocked |-> FALSE, has |-> {}, remainingMinutes |-> 0, attemptsLeft |-> 0,
                        S |-> DeleteSessionsByType(S, c, "auth_attempts")]
           ELSE [blocked |-> FALSE, has |-> {"attemptsLeft"}, remainingMinutes |-> 0,
                 attemptsLeft |-> maxAttempts - Attempts(s), S |-> S]

\* logoutUser that reports success and deletes nothing
LogoutUserKeepsSession(S, c, t) ==
  [result |-> IsUserAuthenticated(S, c, t), S |-> S]

\* logoutUser: [result, S]
LogoutUser(S, c, t) ==
  LET found == GetSession(S, c, "authenticated", t) IN
  IF \E s \in found : "authenticated" \in DOMAIN s.data /\ s.data["authenticated"] = TRUE
    THEN [result |-> TRUE, S |-> DeleteSession(S, (CHOOSE x \in found : TRUE).id)]
    ELSE [result |-> FALSE, S |-> S]

-----------------------------------------------------------------------------
(* History kept for the properties *)

\* trackFailedAttempt stamps blockedUntil in this call
StampsLock(S, c, t) ==
  \E s \in GetSession(S, c, "auth_attempts", t) : Attempts(s) + 1 >= maxAttempts

HasAttemptsRow(S, c) == \E s \in S : s.chatId = c /\ s.type = "auth_attempts"

Bump(n) == IF n > MaxAttempts THEN n ELSE n + 1

\* history after authenticateUser(c, password) run on store S at time t
AuthHistory(S, c, password, t) ==
  IF password = BOT_PASSWORD
    THEN /\ lockUntil' = [lockUntil EXCEPT ![c] = 0]
         /\ authAt' = [authAt EXCEPT ![c] = t]
         /\ fails' = [fails EXCEPT ![c] = 0]
    ELSE /\ lockUntil' = [lockUntil EXCEPT ![c] =
                IF StampsLock(S, c, t) THEN t + TimeoutMinutes * MsPerMinute ELSE @]
         /\ authAt' = authAt
         /\ fails' = [fails EXCEPT ![c] = IF HasAttemptsRow(S, c) THEN Bump(@) ELSE 1]

\* the failures the visible auth_attempts record counts (0 without a record)
RecordedAttempts(S, c, t) ==
  IF GetSession(S, c, "auth_attempts", t) = {} THEN 0
  ELSE Attempts(CHOOSE s \in GetSession(S, c, "auth_attempts", t) : TRUE)

\* the attempt counter is capped at MaxAttempts + MaxOver
CounterBelowCap(S, c, t) ==
  \A s \in GetSession(S, c, "auth_attempts", t) : Attempts(s) < MaxAttempts + MaxOver

Op(name, c, arg) == [name |-> name, chat |-> c, arg |-> arg]

-----------------------------------------------------------------------------
(* Text of a message: String.prototype.trim, regular expressions, parseInt,  *)
(* toUpperCase / toLowerCase, includes, and src/lib/utils.js                 *)

DigitChars == <<"0", "1", "2", "3", "4", "5", "6", "7", "8", "9">>
LowerChars == <<"a", "b", "c", "d", "e", "f", "g", "h", "i", "j", "k", "l", "m",
                "n", "o", "p", "q", "r", "s", "t", "u", "v", "w", "x", "y", "z">>
UpperChars == <<"A", "B", "C", "D", "E", "F", "G", "H", "I", "J", "K", "L", "M",
                "N", "O", "P", "Q", "R", "S", "T", "U", "V", "W", "X", "Y", "Z">>

Range(f) == {f[i] : i \in DOMAIN f}
IndexOf(seq, x) == CHOOSE i \in DOMAIN seq : seq[i] = x

IsDigit(ch) == ch \in Range(DigitChars)
AllDigits(s) == \A i \in DOMAIN s : IsDigit(s[i])

RECURSIVE TrimStart(_)
TrimStart(s) == IF s # <<>> /\ Head(s) = " " THEN TrimStart(Tail(s)) ELSE s

RECURSIVE TrimEnd(_)
TrimEnd(s) == IF s # <<>> /\ s[Len(s)] = " " THEN TrimEnd(SubSeq(s, 1, Len(s) - 1)) ELSE s

Trim(s) == TrimEnd(TrimStart(s))

StartsWith(s, p) == Len(s) >= Len(p) /\ SubSeq(s, 1, Len(p)) = p
Drop(s, n) == SubSeq(s, n + 1, Len(s))

\* s.includes(n)
Includes(s, n) == \E i \in 0..(Len(s) - Len(n)) : SubSeq(s, i + 1, i + Len(n)) = n

UpperChar(ch) == IF ch \in Range(LowerChars) THEN UpperChars[IndexOf(LowerChars, ch)] ELSE ch
LowerChar(ch) == IF ch \in Range(UpperChars) THEN LowerChars[IndexOf(UpperChars, ch)] ELSE ch
ToUpperCase(s) == [i \in DOMAIN s |-> UpperChar(s[i])]
ToLowerCase(s) == [i \in DOMAIN s |-> LowerChar(s[i])]

\* text.replace(/[.,]/g, '')
StripSeparators(s) == SelectSeq(s, LAMBDA ch : ch \notin {".", ","})

RECURSIVE DigitPrefix(_)
DigitPrefix(s) ==
  IF s # <<>> /\ IsDigit(Head(s)) THEN <<Head(s)>> \o DigitPrefix(Tail(s)) ELSE <<>>

RECURSIVE DigitsValue(_)
DigitsValue(s) ==
  IF s = <<>> THEN 0
  ELSE 10 * DigitsValue(SubSeq(s, 1, Len(s) - 1)) + (IndexOf(DigitChars, s[Len(s)]) - 1)

\* parseInt(s): an optional sign, then the longest run of digits; NaN when there is none
ParseInt(s) ==
  LET t == TrimStart(s)
      signed == t # <<>> /\ Head(t) \in {"+", "-"}
      digits == DigitPrefix(IF signed THEN Tail(t) ELSE t)
  IN  IF digits = <<>> THEN [nan |-> TRUE, value |-> 0]
      ELSE [nan |-> FALSE,
            value |-> IF signed /\ Head(t) = "-" THEN 0 - DigitsValue(digits)
                      ELSE DigitsValue(digits)]

\* /^\d{lo,hi}$/
DigitsOfLength(s, lo, hi) == AllDigits(s) /\ Len(s) >= lo /\ Len(s) <= hi

PhonePrefixes == {<<"0", "8">>, <<"6", "2", "8">>, <<"+", "6", "2", "8">>}

\* /^(08|628|\+628)[0-9]{8,11}$/
IsValidPhoneNumber(s) ==
  \E p \in PhonePrefixes : StartsWith(s, p) /\ DigitsOfLength(Drop(s, Len(p)), 8, 11)

\* phoneNumber.replace(/^\+?62|^0/, '')
FormatPhoneNumber(s) ==
  IF StartsWith(s, <<"+", "6", "2">>) THEN Drop(s, 3)
  ELSE IF StartsWith(s, <<"6", "2">>) THEN Drop(s, 2)
  ELSE IF StartsWith(s, <<"0">>) THEN Drop(s, 1)
  ELSE s

-----------------------------------------------------------------------------
(* The authentication engine called directly: the exported functions of     *)
(* authHandler.js in any order, the clock and the cleanup job.              *)

Init ==
  /\ sessions = {}
  /\ now = 0
  /\ ticks = 0
  /\ ev = Op("init", "c1", <<>>)
  /\ api = {}
  /\ ret = [kind |-> "none"]
  /\ lockUntil = [c \in AllChats |-> 0]
  /\ authAt = [c \in AllChats |-> -1]
  /\ fails = [c \in AllChats |-> 0]
  /\ steps = 0
  /\ inflight = {}
  /\ limit = MaxSteps
  /\ env = [MAX_LOGIN_ATTEMPTS |-> 0]

Tick(d) ==
  /\ ticks < MaxTicks
  /\ steps < limit
  /\ now' = now + d
  /\ ticks' = ticks + 1
  /\ steps' = steps + 1
  /\ ev' = Op("tick", "c1", <<>>)
  /\ api' = {}
  /\ ret' = [kind |-> "none"]
  /\ UNCHANGED <<sessions, lockUntil, authAt, fails, inflight, limit, env>>

\* the setInterval callback of setupSessionCleanup; a sweep that finds no
\* expired row leaves everything as it was
SessionCleanup ==
  /\ SweepExpired(sessions, now) # sessions
  /\ sessions' = SweepExpired(sessions, now)
  /\ ev' = Op("cleanup", "c1", <<>>)
  /\ api' = {}
  /\ ret' = [kind |-> "none"]
  /\ UNCHANGED <<now, ticks, lockUntil, authAt, fails, steps, inflight, limit, env>>

CallAuthenticateUser(c, password) ==
  LET r == AuthenticateUser(sessions, c, password, now) IN
  /\ password # BOT_PASSWORD => CounterBelowCap(sessions, c, now)
  /\ sessions' = r.S
  /\ ev' = Op("authenticateUser", c, password)
  /\ api' = {}
  /\ ret' = [kind |-> "auth", result |-> r.success, locked |-> now < lockUntil[c],
             superseded |-> IsUserAuthenticated(sessions, c, now),
             recorded |-> RecordedAttempts(sessions, c, now)]
  /\ AuthHistory(sessions, c, password, now)
  /\ UNCHANGED <<now, ticks, steps, inflight, limit, env>>

CallIsUserBlocked(c) ==
  LET r == IsUserBlocked(sessions, c, now) IN
  /\ sessions' = r.S
  /\ ev' = Op("isUserBlocked", c, <<>>)
  /\ api' = {}
  /\ ret' = [kind |-> "blocked", result |-> r.blocked]
  /\ UNCHANGED <<now, ticks, lockUntil, authAt, fails, steps, inflight, limit, env>>

CallLogoutUser(c) ==
  LET r == LogoutUser(sessions, c, now) IN
  /\ sessions' = r.S
  /\ ev' = Op("logoutUser", c, <<>>)
  /\ api' = {}
  /\ ret' = [kind |-> "bool", result |-> r.result]
  /\ authAt' = [authAt EXCEPT ![c] = IF r.result THEN -1 ELSE @]
  /\ UNCHANGED <<now, ticks, lockUntil, fails, steps, inflight, limit, env>>

NextAuth ==
  \/ \E d \in TickDeltas : Tick(d)
  \/ SessionCleanup
  \/ \E c \in Chats, p \in Passwords : CallAuthenticateUser(c, p)
  \/ \E c \in Chats : CallIsUserBlocked(c)
  \/ \E c \in Chats : CallLogoutUser(c)

SpecAuth == Init /\ [][NextAuth]_vars

-----------------------------------------------------------------------------
(* The session manager called directly: the six functions returned by       *)
(* initializeSessionManager in any order, the clock and the cleanup job.    *)

MaxCalls == 4   \* session manager calls and clock advances in one run

StoreChats == AllChats

StoreKinds == {"add_wallet", "dana_transfer"}

\* the data argument of createSession
StoreData == {NoData, [k \in {"a"} |-> 1]}

\* the updates argument of updateSession: state (NoState: no state given), the keys
\* of data given a value, the keys of data given undefined
StoreUpdates ==
  {[st |-> "s1", set |-> NoData, drop |-> {}],
   [st |-> NoState, set |-> [k \in {"a"} |-> 2], drop |-> {}],
   [st |-> NoState, set |-> [k \in {"b"} |-> 1], drop |-> {}],
   [st |-> "s2", set |-> [k \in {"b"} |-> 2], drop |-> {"a"}]}

\* the clock advances by one millisecond, or up to / just short of the default lifetime
StoreDeltas ==
  {1, DefaultSessionMinutes * MsPerMinute - 1, DefaultSessionMinutes * MsPerMinute}

\* ids a caller may hold: of the rows in the table and of rows created at time 0
StoreIds ==
  {s.id : s \in sessions} \cup {SessionId(c, ty, 0) : c \in StoreChats, ty \in StoreKinds}

RowOf(S, id) == {s \in S : s.id = id}

StoreStep(name, c, arg, result) ==
  /\ steps < MaxCalls
  /\ steps' = steps + 1
  /\ ev' = Op(name, c, arg)
  /\ api' = {}
  /\ ret' = result
  /\ UNCHANGED <<now, ticks, lockUntil, authAt, fails, inflight, limit, env>>

\* createSession(chatId, type, data): the INSERT throws on an id already in the table
CallCreateSession(c, ty, d) ==
  /\ Cardinality(sessions) < MaxStore
  /\ IF CanCreate(sessions, c, ty, now)
       THEN /\ sessions' = CreateSession(sessions, c, ty, d, now)
            /\ StoreStep("createSession", c, <<ty, d>>,
                         [kind |-> "session", found |-> TRUE, row |-> NewSession(c, ty, d, now)])
       ELSE /\ sessions' = sessions
            /\ StoreStep("createSession", c, <<ty, d>>,
                         [kind |-> "throw", found |-> FALSE, row |-> "SQLITE_CONSTRAINT"])

\* getSession(chatId, type = null): the row returned, or null
CallGetSession(c, ty) ==
  /\ sessions' = sessions
  /\ IF GetSession(sessions, c, ty, now) = {}
       THEN StoreStep("getSession", c, ty, [kind |-> "null", found |-> FALSE, row |-> "null"])
       ELSE \E r \in GetSession(sessions, c, ty, now) :
              StoreStep("getSession", c, ty, [kind |-> "session", found |-> TRUE, row |-> r])

\* updateSession(sessionId, updates): the updated session, or null when no row has the id
CallUpdateSession(id, u) ==
  /\ sessions' = UpdateSession(sessions, id, u.st, u.set, u.drop)
  /\ IF RowOf(sessions, id) = {}
       THEN StoreStep("updateSession", id[1], <<id, u>>,
                      [kind |-> "null", found |-> FALSE, row |-> "null"])
       ELSE \E s \in RowOf(sessions, id) :
              StoreStep("updateSession", id[1], <<id, u>>,
                        [kind |-> "session", found |-> TRUE,
                         row |-> UpdatedRow(s, u.st, u.set, u.drop)])

\* deleteSession(sessionId): result.changes > 0
CallDeleteSession(id) ==
  /\ sessions' = DeleteSession(sessions, id)
  /\ StoreStep("deleteSession", id[1], id,
               [kind |-> "bool", found |-> RowOf(sessions, id) # {}, row |-> "null"])

\* deleteSessionsByType(chatId, type): result.changes > 0
CallDeleteSessionsByType(c, ty) ==
  /\ sessions' = DeleteSessionsByType(sessions, c, ty)
  /\ StoreStep("deleteSessionsByType", c, ty,
               [kind |-> "bool", found |-> DeleteSessionsByType(sessions, c, ty) # sessions,
                row |-> "null"])

\* extendSession(sessionId, minutes = 15): result.changes > 0
CallExtendSession(id) ==
  /\ sessions' = ExtendSession(sessions, id, DefaultSessionMinutes, now)
  /\ StoreStep("extendSession", id[1], id,
               [kind |-> "bool", found |-> RowOf(sessions, id) # {}, row |-> "null"])

NextStore ==
  \/ \E d \in StoreDeltas : Tick(d)
  \/ SessionCleanup
  \/ \E c \in StoreChats, ty \in StoreKinds, d \in StoreData : CallCreateSession(c, ty, d)
  \/ \E c \in StoreChats, ty \in StoreKinds \cup {NoType} : CallGetSession(c, ty)
  \/ \E id \in StoreIds, u \in StoreUpdates : CallUpdateSession(id, u)
  \/ \E id \in StoreIds : CallDeleteSession(id)
  \/ \E c \in StoreChats, ty \in StoreKinds : CallDeleteSessionsByType(c, ty)
  \/ \E id \in StoreIds : CallExtendSession(id)

SpecStore == Init /\ [][NextStore]_vars

-----------------------------------------------------------------------------
(* Session helpers: src/lib/sessionUtils.js *)

\* the object returned by initializeSessionManager
ManagerMethods ==
  {"createSession", "getSession", "updateSession", "deleteSession",
   "deleteSessionsByType", "extendSession"}

DefaultExcludeTypes == {"authenticated"}

\* getSessionData(chatId, sessionManager): the rows it may return
GetSessionData(S, c, t) ==
  IF "getSession" \in ManagerMethods THEN GetSession(S, c, NoType, t) ELSE {}

\* SELECT ... AND type NOT IN (excludeTypes) ORDER BY createdAt DESC LIMIT 1
QueryExcluding(S, c, exclude, t) ==
  Newest({s \in Visible(S, c, t) : s.type \notin exclude})

\* getSessionData(chatId, sessionManager, excludeTypes) of the second version of the
\* helpers: it filters only through capabilities that the session manager may offer
GetSessionDataExcluding(S, c, exclude, t) ==
  IF "getActiveSession" \in ManagerMethods
    THEN QueryExcluding(S, c, exclude, t)
  ELSE IF "hasActiveProcessSession" \in ManagerMethods
    THEN {s \in GetSession(S, c, NoType, t) : s.type \notin exclude}
  ELSE IF "db" \in ManagerMethods
    THEN QueryExcluding(S, c, exclude, t)
  ELSE GetSession(S, c, NoType, t)

CreateSessionData(S, c, ty, d, t) ==
  IF "createSession" \in ManagerMethods THEN CreateSession(S, c, ty, d, t) ELSE S

UpdateSessionData(S, id, st, set, drop) ==
  IF "updateSession" \in ManagerMethods THEN UpdateSession(S, id, st, set, drop) ELSE S

DeleteSessionData(S, id) ==
  IF "deleteSession" \in ManagerMethods THEN DeleteSession(S, id) ELSE S

-----------------------------------------------------------------------------
(* Handlers in flight.  A handler fetches the chat's session, awaits an      *)
(* external call and then calls updateSession, which itself awaits its       *)
(* SELECT before it runs its UPDATE.  Other handlers, the clock and the      *)
(* cleanup job run at every await.                                           *)

MaxRace == 7       \* steps of handlers in one run
MaxInflight == 2   \* handlers suspended at the same time

RaceStep(name, c, arg, result, S, F) ==
  /\ steps < MaxRace
  /\ steps' = steps + 1
  /\ sessions' = S
  /\ inflight' = F
  /\ limit' = limit
  /\ env' = env
  /\ ev' = Op(name, c, arg)
  /\ api' = {}
  /\ ret' = result
  /\ UNCHANGED <<now, ticks, lockUntil, authAt, fails>>

\* const session = await getSessionData(chatId, sessionManager); if (!session) return;
\* the handler goes on to an awaited external call, holding session and its update;
\* cancelled records, for the properties, that a cancel deleted the session meanwhile
HandlerGetSession(c, u) ==
  /\ Cardinality(inflight) < MaxInflight
  /\ \E s \in GetSessionData(sessions, c, now) :
       RaceStep("handler.getSession", c, u,
                [kind |-> "session", found |-> TRUE, row |-> s], sessions,
                inflight \cup {[at |-> "api", id |-> s.id, u |-> u, row |-> s,
                              cancelled |-> FALSE]})

\* updateSession, first half: const row = await db.get('SELECT ... WHERE id = ?');
\* if (!row) return null
UpdateSelect(h) ==
  /\ h.at = "api"
  /\ IF RowOf(sessions, h.id) = {}
       THEN RaceStep("updateSession.select", h.id[1], h,
                     [kind |-> "null", found |-> FALSE, row |-> "null"], sessions,
                     inflight \ {h})
       ELSE \E r \in RowOf(sessions, h.id) :
              RaceStep("updateSession.select", h.id[1], h,
                       [kind |-> "row", found |-> TRUE, row |-> r], sessions,
                       (inflight \ {h}) \cup {[h EXCEPT !.at = "update", !.row = r]})

\* the UPDATE statement writing two columns of the row with the id, if it is there
WriteStateAndData(S, id, new) ==
  {IF s.id = id THEN [s EXCEPT !.state = new.state, !.data = new.data] ELSE s : s \in S}

\* updateSession, second half: merge into the row read, UPDATE ... SET state = ?, data = ?
\* WHERE id = ?, return updatedSession
UpdateWrite(h) ==
  /\ h.at = "update"
  /\ LET new == UpdatedRow(h.row, h.u.st, h.u.set, h.u.drop) IN
       RaceStep("updateSession.update", h.id[1], h,
                [kind |-> "session", found |-> TRUE, row |-> new],
                WriteStateAndData(sessions, h.id, new), inflight \ {h})

NextRace ==
  \/ \E d \in StoreDeltas : Tick(d)
  \/ SessionCleanup
  \/ \E ty \in StoreKinds, d \in StoreData : CallCreateSession("c1", ty, d)
  \/ \E u \in StoreUpdates : HandlerGetSession("c1", u)
  \/ \E h \in inflight : UpdateSelect(h)
  \/ \E h \in inflight : UpdateWrite(h)

SpecRace == Init /\ [][NextRace]_vars

\* bot.action('cancel_transfer') while handlers are suspended: getSessionData, then
\* deleteSessionData(session.id); the handlers of that session are not told
HandlerCancel(c) ==
  IF GetSessionData(sessions, c, now) = {}
    THEN RaceStep("cancel_transfer", c, <<>>,
                  [kind |-> "null", found |-> FALSE, row |-> "null"], sessions, inflight)
    ELSE \E s \in GetSessionData(sessions, c, now) :
           RaceStep("cancel_transfer", c, s.id,
                    [kind |-> "session", found |-> TRUE, row |-> s],
                    DeleteSessionData(sessions, s.id),
                    {IF h.id = s.id THEN [h EXCEPT !.cancelled = TRUE] ELSE h : h \in inflight})

NextCancel ==
  \/ \E d \in StoreDeltas : Tick(d)
  \/ \E ty \in StoreKinds, d \in StoreData : CallCreateSession("c1", ty, d)
  \/ \E u \in StoreUpdates : HandlerGetSession("c1", u)
  \/ HandlerCancel("c1")
  \/ \E h \in inflight : UpdateSelect(h)
  \/ \E h \in inflight : UpdateWrite(h)

SpecCancel == Init /\ [][NextCancel]_vars

-----------------------------------------------------------------------------
(* What the bot is connected to: the wallets it supports, the accounts and   *)
(* banks the Mutasiku API returns, the texts a user sends                    *)

SUPPORTED_WALLETS ==
  <<[code |-> "DANA", id |-> "dana-id"],
    [code |-> "OVO", id |-> "ovo-id"],
    [code |-> "GOPAY-MERCHANT", id |-> "gopay-id"]>>

WalletButtons == {"DANA", "OVO", "cancel"}
Accounts == {"a1"}
Methods == {"SMS", "WHATSAPP"}
TransferTypes == {"bank", "qris"}

\* response.data of getDanaBanks, in the order the API lists them
Banks ==
  <<[instId |-> <<"B", "N", "I", "C", "1", "I", "D">>, name |-> <<"B", "N", "I">>],
    [instId |-> <<"B", "C", "A", "C", "1", "I", "D">>, name |-> <<"B", "C", "A">>]>>

popularBankIds ==
  <<<<"B", "C", "A", "C", "1", "I", "D">>,
    <<"M", "D", "R", "I", "C", "1", "I", "D">>,
    <<"B", "N", "I", "C", "1", "I", "D">>,
    <<"B", "R", "I", "C", "1", "I", "D">>,
    <<"C", "I", "T", "I", "C", "1", "I", "D">>,
    <<"M", "A", "B", "K", "C", "1", "I", "D">>,
    <<"P", "A", "N", "I", "C", "1", "I", "D">>,
    <<"B", "N", "L", "I", "C", "1", "I", "D">>,
    <<"D", "B", "S", "C", "1", "I", "D">>,
    <<"U", "O", "B", "C", "1", "I", "D">>>>

BANKS_PER_PAGE == 15

Texts ==
  {<<" ">> \o BOT_PASSWORD,                                  \* the password
   <<"x">>,                                                  \* one character
   <<"0", "8", "1", "2", "3", "4", "5", "6", "7", "8">>,     \* a phone / account number
   <<"1", "2", "3", "4", "5", "6">>,                         \* a PIN / OTP / amount
   <<"9", ".", "0", "0", "0">>,                              \* an amount with a separator
   <<"k", "o", "n", "f", "i", "r", "m", "a", "s", "i">>,
   <<"B", "a", "t", "a", "l">>,
   <<"b", "c", "a">>,                                        \* a search term, one bank
   <<"c", "1">>}                                             \* a search term, two banks

KONFIRMASI == <<"K", "O", "N", "F", "I", "R", "M", "A", "S", "I">>
BATAL == <<"B", "A", "T", "A", "L">>

-----------------------------------------------------------------------------
(* The bot: setupBotCommands.  One action per update handled; the handler    *)
(* runs to completion at one instant.                                        *)

\* what every handler leaves behind: the store, the update, the API calls, the reply
Reply(name, c, arg, tag, calls, S) ==
  /\ steps < limit
  /\ Cardinality(S) <= MaxStore
  /\ steps' = steps + 1
  /\ sessions' = S
  /\ ev' = Op(name, c, arg)
  /\ api' = calls
  /\ ret' = [kind |-> "reply", tag |-> tag]
  /\ UNCHANGED <<now, ticks, inflight, limit, env>>

NoHistory == UNCHANGED <<lockUntil, authAt, fails>>

\* the reply of a protected command to a chat that is not authenticated
Restricted(name, c) ==
  /\ ~IsUserAuthenticated(sessions, c, now)
  /\ Reply(name, c, <<>>, "restricted", {}, sessions)
  /\ NoHistory

CmdStart(c) ==
  /\ Reply("/start", c, <<>>,
           IF IsUserAuthenticated(sessions, c, now) THEN "welcome_back" ELSE "welcome", {},
           sessions)
  /\ NoHistory

\* createSession(chatId, 'login', {}) then updateSession(id, {state: 'awaiting_password'})
StartLogin(c, S) ==
  IF CanCreate(S, c, "login", now)
    THEN Reply("/login", c, <<>>, "ask_password", {},
               UpdateSession(CreateSession(S, c, "login", NoData, now),
                             SessionId(c, "login", now), "awaiting_password", NoData, {}))
    ELSE Reply("/login", c, <<>>, "error", {}, S)

CmdLogin(c) ==
  LET b == IsUserBlocked(sessions, c, now)
      existing == GetSession(b.S, c, NoType, now)
  IN  /\ NoHistory
      /\ IF IsUserAuthenticated(sessions, c, now)
           THEN Reply("/login", c, <<>>, "already_logged_in", {}, sessions)
         ELSE IF b.blocked
           THEN Reply("/login", c, <<>>, "blocked", {}, b.S)
         ELSE IF existing = {}
           THEN StartLogin(c, b.S)
         ELSE \E s \in existing :
                StartLogin(c, IF s.type # "auth_attempts" THEN DeleteSession(b.S, s.id) ELSE b.S)

CmdLogout(c) ==
  LET r == LogoutUser(sessions, c, now) IN
  /\ Reply("/logout", c, <<>>, IF r.result THEN "logged_out" ELSE "not_logged_in", {}, r.S)
  /\ authAt' = [authAt EXCEPT ![c] = IF r.result THEN -1 ELSE @]
  /\ UNCHANGED <<lockUntil, fails>>

CmdHelp(c) ==
  \/ Restricted("/help", c)
  \/ /\ IsUserAuthenticated(sessions, c, now)
     /\ Reply("/help", c, <<>>, "help", {}, sessions)
     /\ NoHistory

\* handleMutasiCommand
CmdMutasi(c) ==
  \/ Restricted("/mutasi", c)
  \/ /\ IsUserAuthenticated(sessions, c, now)
     /\ \E ok \in BOOLEAN :
          Reply("/mutasi", c, <<>>, IF ok THEN "transactions" ELSE "failed", {"getMutasi"}, sessions)
     /\ NoHistory

\* handleAccountsCommand
CmdAccounts(c) ==
  \/ Restricted("/accounts", c)
  \/ /\ IsUserAuthenticated(sessions, c, now)
     /\ \E ok \in BOOLEAN :
          Reply("/accounts", c, <<>>, IF ok THEN "accounts" ELSE "failed", {"getAccounts"}, sessions)
     /\ NoHistory

\* handleRemoveCommand: the API fails, lists no e-wallet, or lists the accounts
CmdRemove(c) ==
  \/ Restricted("/remove", c)
  \/ /\ IsUserAuthenticated(sessions, c, now)
     /\ NoHistory
     /\ \E listed \in {"failed", "none", "accounts"} :
          /\ Reply("/remove", c, <<>>,
                   IF listed = "accounts" THEN "choose_account" ELSE listed, {"getAccounts"},
                   sessions)

\* handleAddCommand
CmdAdd(c) ==
  \/ Restricted("/add", c)
  \/ /\ IsUserAuthenticated(sessions, c, now)
     /\ NoHistory
     /\ IF GetSessionData(sessions, c, now) # {}
          THEN Reply("/add", c, <<>>, "conflict", {}, sessions)
        ELSE IF Len(SUPPORTED_WALLETS) = 0
          THEN Reply("/add", c, <<>>, "no_wallets", {}, sessions)
        ELSE IF Len(SUPPORTED_WALLETS) = 1
          THEN
               /\ IF CanCreate(sessions, c, "add_wallet", now)
                    THEN Reply("/add", c, <<>>, "ask_phone", {},
                           UpdateSessionData(
                             CreateSessionData(sessions, c, "add_wallet",
                               [walletCode |-> SUPPORTED_WALLETS[1].code,
                                providerId |-> SUPPORTED_WALLETS[1].id], now),
                             SessionId(c, "add_wallet", now), "awaiting_phone", NoData, {}))
                    ELSE Reply("/add", c, <<>>, "failed", {}, sessions)
        ELSE Reply("/add", c, <<>>, "choose_wallet", {}, sessions)

\* handleTransferCommand: the API fails, lists no active DANA account, or lists them
CmdTransfer(c) ==
  \/ Restricted("/transfer", c)
  \/ /\ IsUserAuthenticated(sessions, c, now)
     /\ NoHistory
     /\ IF GetSessionData(sessions, c, now) # {}
          THEN Reply("/transfer", c, <<>>, "conflict", {}, sessions)
          ELSE \E listed \in {"failed", "none", "accounts"} :
                 /\ Reply("/transfer", c, <<>>,
                          IF listed = "accounts" THEN "choose_account" ELSE listed,
                          {"getAccounts"}, sessions)

CmdCancel(c) ==
  \/ Restricted("/cancel", c)
  \/ /\ IsUserAuthenticated(sessions, c, now)
     /\ NoHistory
     /\ IF GetSessionData(sessions, c, now) = {}
          THEN Reply("/cancel", c, <<>>, "nothing_to_cancel", {}, sessions)
          ELSE \E s \in GetSessionData(sessions, c, now) :
                 Reply("/cancel", c, <<>>, "cancelled", {}, DeleteSessionData(sessions, s.id))

-----------------------------------------------------------------------------
(* setupCallbackActions: the inline buttons *)

Has(s, k) == k \in DOMAIN s.data

CbCancelRemove(c) ==
  /\ Reply("cancel_remove", c, <<>>, "cancelled", {}, sessions)
  /\ NoHistory

CbRemove(c, a) ==
  /\ Reply("remove", c, a, "confirm_removal", {}, sessions)
  /\ NoHistory

\* confirm:<accountId> calls removeAccountForUser
CbConfirm(c, a) ==
  /\ \E ok \in BOOLEAN :
       Reply("confirm", c, a, IF ok THEN "removed" ELSE "failed", {"removeAccount"}, sessions)
  /\ NoHistory

\* transfer_account:<accountId> creates the dana_transfer session
CbTransferAccount(c, a) ==
  /\ NoHistory
  /\ IF CanCreate(sessions, c, "dana_transfer", now)
       THEN /\ Reply("transfer_account", c, a, "choose_type", {},
                     UpdateSessionData(
                       CreateSessionData(sessions, c, "dana_transfer", [accountId |-> a], now),
                       SessionId(c, "dana_transfer", now), "select_transfer_type", NoData, {}))
       ELSE Reply("transfer_account", c, a, "failed", {}, sessions)

CbTransferType(c, ty) ==
  /\ NoHistory
  /\ IF GetSessionData(sessions, c, now) = {}
       THEN Reply("transfer_type", c, ty, "invalid_session", {}, sessions)
       ELSE \E s \in GetSessionData(sessions, c, now) :
              IF ty = "bank"
                THEN Reply("transfer_type", c, ty, "ask_bank_amount", {},
                       UpdateSessionData(sessions, s.id, "awaiting_bank_amount",
                                         [transferType |-> "bank"], {}))
              ELSE IF ty = "qris"
                THEN Reply("transfer_type", c, ty, "ask_qris_amount", {},
                       UpdateSessionData(sessions, s.id, "awaiting_qris_amount",
                                         [transferType |-> "qris"], {}))
              ELSE Reply("transfer_type", c, ty, "none", {}, sessions)

CbSearchBank(c) ==
  /\ NoHistory
  /\ IF GetSessionData(sessions, c, now) = {}
       THEN Reply("search_bank", c, <<>>, "invalid_session", {}, sessions)
       ELSE \E s \in GetSessionData(sessions, c, now) :
              Reply("search_bank", c, <<>>, "ask_search", {},
                    UpdateSessionData(sessions, s.id, "searching_bank", NoData, {}))

\* allBanks.indexOf(bank)
BankIndex(banks, b) == IndexOf(banks, b) - 1

\* popularBankIds.map(id => allBanks.find(bank => bank.instId === id)).filter(defined)
PopularBanks(banks) ==
  LET found(id) == {i \in DOMAIN banks : banks[i].instId = id}
      first(id) == banks[CHOOSE i \in found(id) : \A j \in found(id) : i <= j]
      hits == SelectSeq(popularBankIds, LAMBDA id : found(id) # {})
  IN  [i \in DOMAIN hits |-> first(hits[i])]

CbPopularBanks(c) ==
  /\ NoHistory
  /\ IF GetSessionData(sessions, c, now) = {}
       THEN Reply("popular_banks", c, <<>>, "invalid_session", {}, sessions)
       ELSE \E s \in GetSessionData(sessions, c, now) :
              IF ~Has(s, "availableBanks")
                THEN Reply("popular_banks", c, <<>>, "invalid_session", {}, sessions)
                ELSE /\ Reply("popular_banks", c, <<>>, "popular_banks", {}, sessions)

\* (a.name).localeCompare(b.name) <= 0, on letters
RECURSIVE NameLeq(_, _)
NameLeq(a, b) ==
  IF a = <<>> THEN TRUE
  ELSE IF b = <<>> THEN FALSE
  ELSE LET x == IndexOf(LowerChars, LowerChar(Head(a)))
           y == IndexOf(LowerChars, LowerChar(Head(b)))
       IN  IF x # y THEN x < y ELSE NameLeq(Tail(a), Tail(b))

RECURSIVE InsertBank(_, _)
InsertBank(sorted, b) ==
  IF sorted = <<>> THEN <<b>>
  ELSE IF NameLeq(Head(sorted).name, b.name)
    THEN <<Head(sorted)>> \o InsertBank(Tail(sorted), b)
    ELSE <<b>> \o sorted

RECURSIVE SortBanks(_)
SortBanks(banks) ==
  IF banks = <<>> THEN <<>>
  ELSE InsertBank(SortBanks(SubSeq(banks, 1, Len(banks) - 1)), banks[Len(banks)])

CbAllBanksAz(c) ==
  /\ NoHistory
  /\ IF GetSessionData(sessions, c, now) = {}
       THEN Reply("all_banks_az", c, <<>>, "invalid_session", {}, sessions)
       ELSE \E s \in GetSessionData(sessions, c, now) :
              IF ~Has(s, "availableBanks")
                THEN Reply("all_banks_az", c, <<>>, "invalid_session", {}, sessions)
                ELSE /\ Reply("all_banks_az", c, <<>>, "bank_page", {},
                           UpdateSessionData(sessions, s.id, NoState,
                             [sortedBanks |-> SortBanks(s.data["availableBanks"]),
                              currentPage |-> 0], {}))

CbBankPage(c, page) ==
  /\ NoHistory
  /\ IF GetSessionData(sessions, c, now) = {}
       THEN Reply("bank_page", c, page, "invalid_session", {}, sessions)
       ELSE \E s \in GetSessionData(sessions, c, now) :
              IF ~Has(s, "sortedBanks")
                THEN Reply("bank_page", c, page, "invalid_session", {}, sessions)
                ELSE /\ Reply("bank_page", c, page, "bank_page", {},
                           UpdateSessionData(sessions, s.id, NoState,
                                             [currentPage |-> page], {}))

CbSelectBank(c, bankIndex) ==
  /\ NoHistory
  /\ IF GetSessionData(sessions, c, now) = {}
       THEN Reply("select_bank", c, bankIndex, "invalid_session", {}, sessions)
       ELSE \E s \in GetSessionData(sessions, c, now) :
              IF ~Has(s, "availableBanks") \/ bankIndex >= Len(s.data["availableBanks"])
                THEN Reply("select_bank", c, bankIndex, "invalid_bank", {}, sessions)
                ELSE Reply("select_bank", c, bankIndex, "ask_account_number", {},
                       UpdateSessionData(sessions, s.id, "awaiting_account_number",
                         [bankData |-> s.data["availableBanks"][bankIndex + 1]], {}))

CbCancelTransfer(c) ==
  /\ NoHistory
  /\ IF GetSessionData(sessions, c, now) = {}
       THEN Reply("cancel_transfer", c, <<>>, "cancelled", {}, sessions)
       ELSE \E s \in GetSessionData(sessions, c, now) :
              Reply("cancel_transfer", c, <<>>, "cancelled", {}, DeleteSessionData(sessions, s.id))

FindWallet(code) == {i \in DOMAIN SUPPORTED_WALLETS : SUPPORTED_WALLETS[i].code = code}

\* the add_wallet session of the wallet button: createSessionData, then the state
StartAddWallet(c, code, S) ==
  LET w == SUPPORTED_WALLETS[CHOOSE i \in FindWallet(code) : TRUE] IN
  IF CanCreate(S, c, "add_wallet", now)
    THEN Reply("wallet", c, code, "ask_phone", {},
           UpdateSessionData(
             CreateSessionData(S, c, "add_wallet",
                               [walletCode |-> w.code, providerId |-> w.id], now),
             SessionId(c, "add_wallet", now), "awaiting_phone", NoData, {}))
    ELSE Reply("wallet", c, code, "failed", {}, S)

\* wallet_<code>
CbWallet(c, code) ==
  /\ NoHistory
  /\ IF code = "cancel"
       THEN Reply("wallet", c, code, "cancelled", {}, sessions)
     ELSE IF FindWallet(code) = {}
       THEN Reply("wallet", c, code, "unavailable", {}, sessions)
     ELSE IF GetSessionData(sessions, c, now) = {}
       THEN StartAddWallet(c, code, sessions)
     ELSE \E s \in GetSessionData(sessions, c, now) :
            StartAddWallet(c, code, DeleteSessionData(sessions, s.id))

\* handleDANAInitiation after the verification method is stored in row u:
\* sdk.addAccount fails, or succeeds and the OTP is awaited
DANAInitiation(c, method, u, S, ok) ==
  IF ~ok
    THEN Reply("verification", c, method, "failed", {"addAccount"}, DeleteSessionData(S, u.id))
  ELSE IF Has(u, "phoneNumber")
    THEN Reply("verification", c, method, "ask_otp", {"addAccount"},
               UpdateSessionData(S, u.id, "awaiting_otp", [sessionId |-> "dana-session"], {}))
  ELSE Reply("verification", c, method, "failed", {"addAccount"},
             DeleteSessionData(
               UpdateSessionData(S, u.id, "awaiting_otp", [sessionId |-> "dana-session"], {}),
               u.id))

\* verification_<method>
CbVerification(c, method) ==
  /\ NoHistory
  /\ IF GetSessionData(sessions, c, now) = {}
       THEN Reply("verification", c, method, "invalid_session", {}, sessions)
       ELSE \E s \in GetSessionData(sessions, c, now) :
              LET S1 == UpdateSessionData(sessions, s.id, NoState,
                                          [verificationMethod |-> method], {})
                  u == UpdatedRow(s, NoState, [verificationMethod |-> method], {})
              IN  IF Has(u, "walletCode") /\ u.data["walletCode"] = "DANA"
                    THEN \E ok \in BOOLEAN : DANAInitiation(c, method, u, S1, ok)
                    ELSE Reply("verification", c, method, "failed", {},
                               DeleteSessionData(S1, u.id))

-----------------------------------------------------------------------------
(* setupTextMessageHandler: the handler of each awaited input; s is the session  *)
(* the dispatcher fetched                                                        *)

Text(c, text, tag, calls, S) == Reply("text", c, text, tag, calls, S)

handlePasswordInput(c, text, s) ==
  LET password == Trim(text)
      b == IsUserBlocked(sessions, c, now)
      r == AuthenticateUser(b.S, c, password, now)
      nb == IsUserBlocked(r.S, c, now)
  IN
      /\ IF b.blocked
           THEN Text(c, text, "blocked", {}, DeleteSession(b.S, s.id)) /\ NoHistory
           ELSE /\ AuthHistory(b.S, c, password, now)
                /\ IF r.success
                     THEN Text(c, text, "login_ok", {}, DeleteSession(r.S, s.id))
                   ELSE IF "attemptsLeft" \in nb.has /\ nb.attemptsLeft > 0
                     THEN Text(c, text, "wrong_password", {}, nb.S)
                   ELSE IF nb.blocked
                     THEN Text(c, text, "wrong_password_blocked", {}, DeleteSession(nb.S, s.id))
                   ELSE Text(c, text, "wrong_password", {}, nb.S)

handlePhoneInput(c, text, s) ==
  LET phoneNumber == Trim(text) IN
  /\ NoHistory
  /\ IF ~IsValidPhoneNumber(phoneNumber)
       THEN Text(c, text, "invalid_phone", {}, sessions)
       ELSE Text(c, text, "ask_pin", {},
                 UpdateSessionData(sessions, s.id, "awaiting_pin",
                                   [phoneNumber |-> FormatPhoneNumber(phoneNumber)], {}))

handlePinInput(c, text, s) ==
  LET pin == Trim(text) IN
  /\ NoHistory
  /\ IF ~DigitsOfLength(pin, 6, 6)
       THEN Text(c, text, "invalid_pin", {}, sessions)
       ELSE /\ Text(c, text, "choose_verification", {},
                    UpdateSessionData(sessions, s.id, NoState, [pin |-> pin], {}))

\* verifyDANAOtp stores the OTP; another wallet code is not supported
handleOtpInput(c, text, s) ==
  LET otp == Trim(text) IN
  /\ NoHistory
  /\ IF ~DigitsOfLength(otp, 4, 6)
       THEN Text(c, text, "invalid_otp", {}, sessions)
     ELSE IF Has(s, "walletCode") /\ s.data["walletCode"] = "DANA"
       THEN Text(c, text, "ask_name", {},
                 UpdateSessionData(sessions, s.id, "awaiting_name", [otp |-> otp], {}))
     ELSE Text(c, text, "failed", {}, DeleteSessionData(sessions, s.id))

\* completeDANASetup: sdk.verifyAccount, then the session is deleted
handleNameInput(c, text, s) ==
  LET accountName == Trim(text)
      S1 == UpdateSessionData(sessions, s.id, NoState, [accountName |-> accountName], {})
  IN  /\ NoHistory
      /\ IF Len(accountName) < 3 \/ Len(accountName) > 50
           THEN Text(c, text, "invalid_name", {}, sessions)
         ELSE IF Has(s, "walletCode") /\ s.data["walletCode"] = "DANA"
           THEN \E ok \in BOOLEAN :
                  Text(c, text, IF ok /\ Has(s, "phoneNumber") THEN "account_added" ELSE "failed",
                       {"verifyAccount"}, DeleteSessionData(S1, s.id))
         ELSE Text(c, text, "failed", {}, DeleteSessionData(S1, s.id))

\* parseInt(text.trim().replace(/[.,]/g, ''))
ParseAmount(text) == ParseInt(StripSeparators(Trim(text)))

\* a bank amount handler with the minimum of the QRIS payment
handleBankAmountInputQrisMinimum(c, text, s) ==
  LET amount == ParseAmount(text) IN
  /\ NoHistory
  /\ IF amount.nan \/ amount.value < 1000
       THEN Text(c, text, "invalid_amount", {}, sessions)
       ELSE Text(c, text, "choose_bank_method", {"getDanaBanks"},
                 UpdateSessionData(sessions, s.id, "selecting_bank_method",
                   [amount |-> amount.value, availableBanks |-> Banks], {}))

handleBankAmountInput(c, text, s) ==
  LET amount == ParseAmount(text) IN
  /\ NoHistory
  /\ IF amount.nan \/ amount.value < 10000
       THEN Text(c, text, "invalid_amount", {}, sessions)
       ELSE \E ok \in BOOLEAN :
              IF ok
                THEN /\ Text(c, text, "choose_bank_method", {"getDanaBanks"},
                             UpdateSessionData(sessions, s.id, "selecting_bank_method",
                               [amount |-> amount.value, availableBanks |-> Banks], {}))
                ELSE Text(c, text, "failed", {"getDanaBanks"}, sessions)

handleQRISAmountInput(c, text, s) ==
  LET amount == ParseAmount(text) IN
  /\ NoHistory
  /\ IF amount.nan \/ amount.value < 1000
       THEN Text(c, text, "invalid_amount", {}, sessions)
       ELSE Text(c, text, "ask_qris_photo", {},
                 UpdateSessionData(sessions, s.id, "awaiting_qris_photo",
                                   [amount |-> amount.value], {}))

\* what sdk.transferDanaBankInit answers in response.data
VerificationData == [accountName |-> "receiver", bankAccountIndexNo |-> "idx-1"]

\* an account number handler that stores the text before it checks it
handleAccountNumberInputStoresFirst(c, text, s) ==
  /\ NoHistory
  /\ Text(c, text, "invalid_account_number", {},
          UpdateSessionData(sessions, s.id, NoState, [accountNumber |-> Trim(text)], {}))

\* handleDANABankTransferInit on the updated session u
handleAccountNumberInput(c, text, s) ==
  LET accountNumber == Trim(text)
      S1 == UpdateSessionData(sessions, s.id, NoState, [accountNumber |-> accountNumber], {})
      u == UpdatedRow(s, NoState, [accountNumber |-> accountNumber], {})
  IN  /\ NoHistory
      /\ IF ~DigitsOfLength(accountNumber, 8, 20)
           THEN Text(c, text, "invalid_account_number", {}, sessions)
         ELSE IF ~Has(u, "bankData")
           THEN Text(c, text, "failed", {}, DeleteSessionData(S1, u.id))
         ELSE \E ok \in BOOLEAN :
                IF ok
                  THEN Text(c, text, "confirm_transfer", {"transferDanaBankInit"},
                         UpdateSessionData(S1, u.id, "awaiting_transfer_confirmation",
                           [verificationData |-> VerificationData,
                            bankAccountIndexNo |-> VerificationData.bankAccountIndexNo], {}))
                  ELSE Text(c, text, "failed", {"transferDanaBankInit"},
                            DeleteSessionData(S1, u.id))

\* a confirmation handler that compares the text as it was typed
handleTransferConfirmationAsTyped(c, text, s) ==
  /\ NoHistory
  /\ IF Trim(text) = KONFIRMASI
       THEN \E ok \in BOOLEAN :
              Text(c, text, IF ok THEN "transfer_done" ELSE "failed", {"transferDanaBankCreate"},
                   DeleteSessionData(sessions, s.id))
     ELSE IF Trim(text) = BATAL
       THEN Text(c, text, "cancelled", {}, DeleteSessionData(sessions, s.id))
     ELSE Text(c, text, "unrecognized", {}, sessions)

\* completeDANABankTransfer on KONFIRMASI
handleTransferConfirmation(c, text, s) ==
  LET confirmation == ToUpperCase(Trim(text)) IN
  /\ NoHistory
  /\ IF confirmation = KONFIRMASI
       THEN \E ok \in BOOLEAN :
              Text(c, text, IF ok THEN "transfer_done" ELSE "failed", {"transferDanaBankCreate"},
                   DeleteSessionData(sessions, s.id))
     ELSE IF confirmation = BATAL
       THEN Text(c, text, "cancelled", {}, DeleteSessionData(sessions, s.id))
     ELSE Text(c, text, "unrecognized", {}, sessions)

\* a filter that keeps the first match only
MatchingBanksFirstOnly(allBanks, searchTerm) ==
  LET all == SelectSeq(allBanks, LAMBDA bank :
               \/ Includes(ToLowerCase(bank.name), searchTerm)
               \/ Includes(ToLowerCase(bank.instId), searchTerm))
  IN  SubSeq(all, 1, IF Len(all) > 1 THEN 1 ELSE Len(all))

\* allBanks.filter(name or instId includes the term)
MatchingBanks(allBanks, searchTerm) ==
  SelectSeq(allBanks, LAMBDA bank :
    \/ Includes(ToLowerCase(bank.name), searchTerm)
    \/ Includes(ToLowerCase(bank.instId), searchTerm))

handleBankSearch(c, text, s) ==
  LET searchTerm == ToLowerCase(Trim(text))
      matchingBanks == MatchingBanks(s.data["availableBanks"], searchTerm)
  IN  /\ NoHistory
      /\ IF Len(searchTerm) < 2
           THEN Text(c, text, "search_too_short", {}, sessions)
         ELSE IF ~Has(s, "availableBanks")
           THEN Text(c, text, "error", {}, sessions)
         ELSE IF Len(matchingBanks) = 0
           THEN Text(c, text, "no_bank", {}, sessions)
         ELSE IF Len(matchingBanks) = 1
           THEN /\ Text(c, text, "ask_account_number", {},
                        UpdateSessionData(sessions, s.id, "awaiting_account_number",
                                          [bankData |-> matchingBanks[1]], {}))
         ELSE /\ Text(c, text, "choose_bank", {},
                      UpdateSessionData(sessions, s.id, NoState,
                                        [searchResults |-> matchingBanks], {}))

\* bot.on('text'): dispatch on the state of the session getSessionData returns
Dispatch(c, text, s) ==
  CASE s.state = "awaiting_password" -> handlePasswordInput(c, text, s)
    [] s.state = "awaiting_phone" -> handlePhoneInput(c, text, s)
    [] s.state = "awaiting_pin" -> handlePinInput(c, text, s)
    [] s.state = "awaiting_otp" -> handleOtpInput(c, text, s)
    [] s.state = "awaiting_name" -> handleNameInput(c, text, s)
    [] s.state = "awaiting_bank_amount" -> handleBankAmountInput(c, text, s)
    [] s.state = "awaiting_qris_amount" -> handleQRISAmountInput(c, text, s)
    [] s.state = "awaiting_account_number" -> handleAccountNumberInput(c, text, s)
    [] s.state = "awaiting_transfer_confirmation" -> handleTransferConfirmation(c, text, s)
    [] s.state = "searching_bank" -> handleBankSearch(c, text, s)
    [] OTHER -> FALSE

\* bot.on('text'): without a session, or with one in a state the switch does not
\* list, the handler returns before it has done anything
TextMessage(c, text) ==
  \E s \in GetSessionData(sessions, c, now) : Dispatch(c, text, s)

\* bot.on('photo') and handleDANAQRISTransfer: the download fails, or sdk.transferDanaQris
\* answers; the session is deleted in each case
PhotoMessage(c) ==
  /\ NoHistory
  /\ \E s \in GetSessionData(sessions, c, now) :
       /\ s.state = "awaiting_qris_photo"
       /\ \E outcome \in {"download_failed", "paid", "failed"} :
            Reply("photo", c, <<>>, outcome,
                  IF outcome = "download_failed" THEN {} ELSE {"transferDanaQris"},
                  DeleteSessionData(sessions, s.id))

Command(c) ==
  \/ CmdStart(c) \/ CmdLogin(c) \/ CmdLogout(c) \/ CmdHelp(c) \/ CmdMutasi(c)
  \/ CmdAccounts(c) \/ CmdRemove(c) \/ CmdAdd(c) \/ CmdTransfer(c) \/ CmdCancel(c)

Callback(c) ==
  \/ CbCancelRemove(c)
  \/ \E a \in Accounts : CbRemove(c, a) \/ CbConfirm(c, a) \/ CbTransferAccount(c, a)
  \/ \E ty \in TransferTypes : CbTransferType(c, ty)
  \/ CbSearchBank(c) \/ CbPopularBanks(c) \/ CbAllBanksAz(c)
  \/ \E page \in 0..MaxPage : CbBankPage(c, page)
  \/ \E i \in 0..Len(Banks) : CbSelectBank(c, i)
  \/ CbCancelTransfer(c)
  \/ \E code \in WalletButtons : CbWallet(c, code)
  \/ \E m \in Methods : CbVerification(c, m)

Next ==
  \/ \E d \in TickDeltas : Tick(d)
  \/ SessionCleanup
  \/ \E c \in Chats : Command(c)
  \/ \E c \in Chats : Callback(c)
  \/ \E c \in Chats, text \in Texts : TextMessage(c, text)
  \/ \E c \in Chats : PhotoMessage(c)

Spec == Init /\ [][Next]_vars

-----------------------------------------------------------------------------
(* The two flows followed to their ends: the updates that start and advance  *)
(* the add-wallet flow and the transfer flow of one chat.                    *)

MaxFlow == 7   \* updates handled in one run of the flows

InitFlow ==
  /\ sessions = {}
  /\ now = 0
  /\ ticks = 0
  /\ ev = Op("init", "c1", <<>>)
  /\ api = {}
  /\ ret = [kind |-> "none"]
  /\ lockUntil = [c \in AllChats |-> 0]
  /\ authAt = [c \in AllChats |-> -1]
  /\ fails = [c \in AllChats |-> 0]
  /\ steps = 0
  /\ inflight = {}
  /\ limit = MaxFlow
  /\ env = [MAX_LOGIN_ATTEMPTS |-> 0]

NextFlow ==
  \/ \E text \in Texts : TextMessage("c1", text)
  \/ PhotoMessage("c1")
  \/ CbWallet("c1", "DANA")
  \/ \E m \in Methods : CbVerification("c1", m)
  \/ \E a \in Accounts : CbTransferAccount("c1", a)
  \/ \E ty \in TransferTypes : CbTransferType("c1", ty)
  \/ CbSearchBank("c1")
  \/ CbCancelTransfer("c1")

SpecFlow == InitFlow /\ [][NextFlow]_vars

-----------------------------------------------------------------------------
(* Onboarding after a login: /login, the password, and the add-wallet flow   *)
(* of one chat, with the clock advancing between the updates.                *)

MaxOnboard == 9   \* updates handled and clock advances in one run of the onboarding

InitOnboard ==
  /\ sessions = {}
  /\ now = 0
  /\ ticks = 0
  /\ ev = Op("init", "c1", <<>>)
  /\ api = {}
  /\ ret = [kind |-> "none"]
  /\ lockUntil = [c \in AllChats |-> 0]
  /\ authAt = [c \in AllChats |-> -1]
  /\ fails = [c \in AllChats |-> 0]
  /\ steps = 0
  /\ inflight = {}
  /\ limit = MaxOnboard
  /\ env = [MAX_LOGIN_ATTEMPTS |-> 0]

NextOnboard ==
  \/ Tick(1)
  \/ CmdLogin("c1")
  \/ \E text \in Texts : TextMessage("c1", text)
  \/ CbWallet("c1", "DANA")
  \/ \E m \in Methods : CbVerification("c1", m)

SpecOnboard == InitOnboard /\ [][NextOnboard]_vars

-----------------------------------------------------------------------------
(* Two chats side by side: the session manager, authenticateUser, logoutUser *)
(* and /cancel called for either chat in any order.                          *)

ChatsUpdate == [st |-> "s1", set |-> [k \in {"a"} |-> 2], drop |-> {}]

ChatsAuthenticateUser(c, password) ==
  LET r == AuthenticateUser(sessions, c, password, now) IN
  /\ password # BOT_PASSWORD => CounterBelowCap(sessions, c, now)
  /\ Cardinality(r.S) <= MaxStore
  /\ sessions' = r.S
  /\ StoreStep("authenticateUser", c, password,
               [kind |-> "bool", found |-> r.success, row |-> "null"])

ChatsLogoutUser(c) ==
  LET r == LogoutUser(sessions, c, now) IN
  /\ sessions' = r.S
  /\ StoreStep("logoutUser", c, <<>>, [kind |-> "bool", found |-> r.result, row |-> "null"])

NextChats ==
  \/ Tick(DefaultSessionMinutes * MsPerMinute)
  \/ SessionCleanup
  \/ \E c \in AllChats, ty \in StoreKinds : CallCreateSession(c, ty, NoData)
  \/ \E id \in StoreIds : CallUpdateSession(id, ChatsUpdate)
  \/ \E id \in StoreIds : CallDeleteSession(id)
  \/ \E c \in AllChats, ty \in StoreKinds : CallDeleteSessionsByType(c, ty)
  \/ \E id \in StoreIds : CallExtendSession(id)
  \/ \E c \in AllChats, p \in Passwords : ChatsAuthenticateUser(c, p)
  \/ \E c \in AllChats : ChatsLogoutUser(c)
  \/ \E c \in AllChats : CmdCancel(c)

SpecChats == Init /\ [][NextChats]_vars

-----------------------------------------------------------------------------
(* Payments in flight: the transfer flow of one chat, with the handlers that *)
(* pay (KONFIRMASI in state awaiting_transfer_confirmation, a photo in state *)
(* awaiting_qris_photo) followed statement by statement.  Telegraf handles   *)
(* the updates of one batch concurrently, so a second message is dispatched  *)
(* while the first handler awaits the API.                                   *)

MaxPay == 10      \* updates handled and handler steps in one run
UpdateIds == {1, 2}   \* update_id of the messages that ask for the payment

PayStep(name, c, arg, tag, calls, S, F) ==
  /\ steps < limit
  /\ steps' = steps + 1
  /\ sessions' = S
  /\ inflight' = F
  /\ ev' = Op(name, c, arg)
  /\ api' = calls
  /\ ret' = [kind |-> "reply", tag |-> tag]
  /\ UNCHANGED <<now, ticks, lockUntil, authAt, fails, limit, env>>

\* the call a handler that pays issues for a session in state st
PaymentCallOf(st) ==
  IF st = "awaiting_transfer_confirmation" THEN "transferDanaBankCreate" ELSE "transferDanaQris"

\* bot.on('text') with KONFIRMASI / bot.on('photo'): const session = await
\* getSessionData(chatId, sessionManager), the test of session.state, and the status
\* message; the handler then awaits the API with the session in its locals
PaymentDispatch(c, u) ==
  /\ \A h \in inflight : h.update # u
  /\ \E s \in GetSessionData(sessions, c, now) :
       /\ s.state \in {"awaiting_transfer_confirmation", "awaiting_qris_photo"}
       /\ PayStep("payment.dispatch", c, u, "processing", {}, sessions,
                  inflight \cup {[at |-> "dispatched", update |-> u, id |-> s.id, row |-> s]})

\* completeDANABankTransfer / handleDANAQRISTransfer: the payment call goes out
PaymentCall(h) ==
  /\ h.at = "dispatched"
  /\ PayStep("payment.call", h.id[1], h.update, "processing", {PaymentCallOf(h.row.state)},
             sessions, (inflight \ {h}) \cup {[h EXCEPT !.at = "called"]})

\* the API has answered, with success or not: await deleteSessionData(session.id, ...);
\* the handler has returned and stays in the set as done, for the properties
PaymentDone(h) ==
  /\ h.at = "called"
  /\ \E tag \in {"transfer_done", "failed"} :
       PayStep("payment.done", h.id[1], h.update, tag, {},
               DeleteSessionData(sessions, h.id),
               (inflight \ {h}) \cup {[h EXCEPT !.at = "done"]})

InitPay ==
  /\ sessions = {}
  /\ now = 0
  /\ ticks = 0
  /\ ev = Op("init", "c1", <<>>)
  /\ api = {}
  /\ ret = [kind |-> "none"]
  /\ lockUntil = [c \in AllChats |-> 0]
  /\ authAt = [c \in AllChats |-> -1]
  /\ fails = [c \in AllChats |-> 0]
  /\ steps = 0
  /\ inflight = {}
  /\ limit = MaxPay
  /\ env = [MAX_LOGIN_ATTEMPTS |-> 0]

NextPay ==
  \/ \E a \in Accounts : CbTransferAccount("c1", a)
  \/ \E ty \in TransferTypes : CbTransferType("c1", ty)
  \/ CbSearchBank("c1")
  \/ \E text \in Texts : TextMessage("c1", text)
  \/ \E u \in UpdateIds : PaymentDispatch("c1", u)
  \/ \E h \in inflight : PaymentCall(h)
  \/ \E h \in inflight : PaymentDone(h)

SpecPay == InitPay /\ [][NextPay]_vars

-----------------------------------------------------------------------------
(* The lockout as configured: the bot started with MAX_LOGIN_ATTEMPTS unset  *)
(* or set to a number, and authenticateUser and isUserBlocked called.        *)

MaxConfigured == 3   \* the largest MAX_LOGIN_ATTEMPTS the bot is started with

InitConfig ==
  /\ sessions = {}
  /\ now = 0
  /\ ticks = 0
  /\ ev = Op("init", "c1", <<>>)
  /\ api = {}
  /\ ret = [kind |-> "none"]
  /\ lockUntil = [c \in AllChats |-> 0]
  /\ authAt = [c \in AllChats |-> -1]
  /\ fails = [c \in AllChats |-> 0]
  /\ steps = 0
  /\ inflight = {}
  /\ limit = MaxSteps
  /\ env \in [MAX_LOGIN_ATTEMPTS : 0..MaxConfigured]

NextConfig ==
  \/ \E d \in StoreDeltas : Tick(d)
  \/ \E p \in Passwords : ChatsAuthenticateUser("c1", p)
  \/ CallIsUserBlocked("c1")

SpecConfig == InitConfig /\ [][NextConfig]_vars

-----------------------------------------------------------------------------
(* The store failing: db.get / db.run of the sqlite driver reject with an     *)
(* error, and the functions that reach the store are called for one chat.    *)

DbOutcomes == {"ok", "SQLITE_ERROR"}

\* a rejected promise: the error reaches the caller
Thrown(e) == [kind |-> "throw", found |-> FALSE, row |-> e]

\* what a lookup returns for the rows R it may pick: the session, or null
Returned(R) ==
  IF R = {} THEN {[kind |-> "null", found |-> FALSE, row |-> "null"]}
            ELSE {[kind |-> "session", found |-> TRUE, row |-> r] : r \in R}

\* getSession: const row = await db.get(query, ...params), no try / catch around it
DbGetSession(c, ty, db) ==
  /\ sessions' = sessions
  /\ \E r \in (IF db = "ok" THEN Returned(GetSession(sessions, c, ty, now))
                             ELSE {Thrown(db)}) :
       StoreStep("getSession", c, <<ty, db>>, r)

\* getSessionData of lib/sessionUtils.js: return await sessionManager.getSession(chatId)
DbGetSessionData(c, db) ==
  /\ sessions' = sessions
  /\ \E r \in (IF db = "ok" THEN Returned(GetSessionData(sessions, c, now))
                             ELSE {Thrown(db)}) :
       StoreStep("getSessionData", c, <<NoType, db>>, r)

\* createSession: await db.run('INSERT ...'), no try / catch around it
DbCreateSession(c, ty, d, db) ==
  /\ Cardinality(sessions) < MaxStore
  /\ IF db = "ok" /\ CanCreate(sessions, c, ty, now)
       THEN /\ sessions' = CreateSession(sessions, c, ty, d, now)
            /\ StoreStep("createSession", c, <<ty, db>>,
                         [kind |-> "session", found |-> TRUE, row |-> NewSession(c, ty, d, now)])
       ELSE /\ sessions' = sessions
            /\ StoreStep("createSession", c, <<ty, db>>,
                         Thrown(IF db = "ok" THEN "SQLITE_CONSTRAINT" ELSE db))

\* deleteSession: const result = await db.run('DELETE ...'); return result.changes > 0
DbDeleteSession(id, db) ==
  IF db = "ok"
    THEN /\ sessions' = DeleteSession(sessions, id)
         /\ StoreStep("deleteSession", id[1], <<id, db>>,
                      [kind |-> "bool", found |-> RowOf(sessions, id) # {}, row |-> "null"])
    ELSE /\ sessions' = sessions
         /\ StoreStep("deleteSession", id[1], <<id, db>>, Thrown(db))

\* isUserAuthenticated: try { session = await sessionManager.getSession(chatId,
\* 'authenticated'); ... } catch (error) { logger.error(...); return false; }
DbIsUserAuthenticated(c, db) ==
  /\ sessions' = sessions
  /\ StoreStep("isUserAuthenticated", c, <<"authenticated", db>>,
               [kind |-> "bool",
                found |-> IF db = "ok" THEN IsUserAuthenticated(sessions, c, now) ELSE FALSE,
                row |-> "null"])

NextFail ==
  \/ \E d \in StoreDeltas : Tick(d)
  \/ \E p \in Passwords : ChatsAuthenticateUser("c1", p)
  \/ \E ty \in StoreKinds \cup {NoType}, db \in DbOutcomes : DbGetSession("c1", ty, db)
  \/ \E db \in DbOutcomes : DbGetSessionData("c1", db)
  \/ \E ty \in StoreKinds, d \in StoreData, db \in DbOutcomes : DbCreateSession("c1", ty, d, db)
  \/ \E id \in StoreIds, db \in DbOutcomes : DbDeleteSession(id, db)
  \/ \E db \in DbOutcomes : DbIsUserAuthenticated("c1", db)

SpecFail == Init /\ [][NextFail]_vars

-----------------------------------------------------------------------------
(* Properties of the authentication engine *)

AttemptsRows(c) == {s \in sessions : s.chatId = c /\ s.type = "auth_attempts"}
AuthenticatedRows(c) == {s \in sessions : s.chatId = c /\ s.type = "authenticated"}

AfterWrongPassword(c) ==
  ev.name = "authenticateUser" /\ ev.chat = c /\ ev.arg # BOT_PASSWORD

\* C5: with maxAttempts = 3 and no prior auth_attempts record, isUserBlocked reports
\* attemptsLeft = 2 after the first wrong password, attemptsLeft = 1 after the second and
\* blocked = true with remainingMinutes = ceil((blockedUntil - now) / 60000) = 30 after
\* the third consecutive one.
C5_ThreeWrongPasswordsBlock ==
  \A c \in Chats :
    AfterWrongPassword(c) =>
      LET b == IsUserBlocked(sessions, c, now) IN
      /\ fails[c] = 1 => (~b.blocked /\ "attemptsLeft" \in b.has /\ b.attemptsLeft = 2)
      /\ fails[c] = 2 => (~b.blocked /\ "attemptsLeft" \in b.has /\ b.attemptsLeft = 1)
      /\ fails[c] = 3 => /\ b.blocked
                         /\ b.remainingMinutes = CeilDiv(lockUntil[c] - now, MsPerMinute)
                         /\ b.remainingMinutes = TimeoutMinutes

\* C6: once blockedUntil has been stamped, isUserBlocked returns blocked = true at every
\* time strictly before blockedUntil.
C6_LockoutBlocksUntilExpiry ==
  \A c \in Chats : now < lockUntil[c] => IsUserBlocked(sessions, c, now).blocked

\* C7: authenticateUser called with the correct password while the chat is within a
\* lockout window fails: no authenticated session is created and the auth_attempts
\* record is not cleared.
C7_LockoutBeatsCorrectPassword ==
  [][\A c \in Chats :
       (/\ now < lockUntil[c]
        /\ ev'.name = "authenticateUser" /\ ev'.chat = c /\ ev'.arg = BOT_PASSWORD)
       => /\ ~ret'.result
          /\ AuthenticatedRows(c)' \subseteq AuthenticatedRows(c)
          /\ AttemptsRows(c)' = AttemptsRows(c)]_vars

\* C11: a correct password given before lockout deletes the auth_attempts record, and
\* isUserBlocked reports blocked = true only after maxAttempts wrong passwords given since
\* then (fails counts at most the wrong passwords since the last success).
C11_SuccessResetsAttempts ==
  \A c \in Chats :
    /\ (ev.name = "authenticateUser" /\ ev.chat = c /\ ret.result /\ ~ret.locked)
         => /\ AttemptsRows(c) = {}
            /\ fails[c] = 0
            /\ ~IsUserBlocked(sessions, c, now).blocked
    /\ IsUserBlocked(sessions, c, now).blocked => fails[c] >= MaxAttempts

\* the correct password has just been accepted after maxAttempts - 1 recorded failures
C11_Witness ==
  \E c \in Chats :
    /\ ev.name = "authenticateUser" /\ ev.chat = c
    /\ ret.result /\ ~ret.locked /\ ret.recorded = MaxAttempts - 1
    /\ AttemptsRows(c) = {}

\* C12: immediately after a successful authenticateUser, isUserBlocked returns
\* blocked = false together with attemptsLeft = maxAttempts.
C12_FullAttemptsAfterSuccess ==
  \A c \in Chats :
    (ev.name = "authenticateUser" /\ ev.chat = c /\ ret.result)
      => LET b == IsUserBlocked(sessions, c, now) IN
         ~b.blocked /\ "attemptsLeft" \in b.has /\ b.attemptsLeft = MaxAttempts

\* C13: logoutUser on an authenticated chat returns true and makes isUserAuthenticated
\* false; logoutUser called again (and on any chat that is not authenticated) returns
\* false and leaves the store as it is.
C13_LogoutThenLogoutAgain ==
  [][\A c \in Chats :
       (ev'.name = "logoutUser" /\ ev'.chat = c)
       => /\ ret'.result = IsUserAuthenticated(sessions, c, now)
          /\ ~IsUserAuthenticated(sessions', c, now')
          /\ ~ret'.result => sessions' = sessions
          /\ LogoutUser(sessions', c, now') = [result |-> FALSE, S |-> sessions']]_vars

\* logoutUser has just ended a valid authenticated session
C13_Witness ==
  \E c \in Chats :
    /\ ev.name = "logoutUser" /\ ev.chat = c /\ ret.result
    /\ ~IsUserAuthenticated(sessions, c, now)
    /\ AuthenticatedRows(c) = {}

\* C8: after a successful authenticateUser at time t, and absent logout,
\* isUserAuthenticated is true at every time in [t, t + 24h) and false from t + 24h on.
C8_AuthenticatedFor24Hours ==
  \A c \in Chats :
    authAt[c] >= 0 =>
      (IsUserAuthenticated(sessions, c, now) <=> now < authAt[c] + AuthSessionMinutes * MsPerMinute)

\* C9: each chat has at most one unexpired session of kind authenticated.
C9_OneAuthenticatedSession ==
  \A c \in Chats : Cardinality(AuthenticatedRows(c) \cap Visible(sessions, c, now)) <= 1

\* a successful authenticateUser has just superseded a valid authenticated session
C9_Witness ==
  \E c \in Chats :
    /\ ev.name = "authenticateUser" /\ ev.chat = c
    /\ ret.result /\ ret.superseded
    /\ Cardinality(AuthenticatedRows(c)) = 1

\* C10: while a lockout window is open exactly one auth_attempts row exists for the chat
\* (no second one alongside it) and it is visible; the row is gone after a successful
\* authenticateUser and after an isUserBlocked call made once the lockout has expired.
C10_OneAttemptsRecordWhileLocked ==
  \A c \in Chats :
    /\ now < lockUntil[c] =>
         /\ Cardinality(AttemptsRows(c)) = 1
         /\ AttemptsRows(c) \subseteq Visible(sessions, c, now)
    /\ (ev.name = "authenticateUser" /\ ev.chat = c /\ ret.result) => AttemptsRows(c) = {}
    /\ (ev.name = "isUserBlocked" /\ ev.chat = c /\ lockUntil[c] > 0 /\ now >= lockUntil[c])
         => AttemptsRows(c) = {}

-----------------------------------------------------------------------------
(* Properties of the session manager *)

\* the row of the table that a call of updateSession / extendSession / deleteSession named
Named(S, e) == RowOf(S, IF e.name = "updateSession" THEN e.arg[1] ELSE e.arg)

\* C14: data updates are shallow merges.  After updateSession(id, {state, data: D}) on
\* an existing row, the stored data maps each key of D to its new value (a key given
\* undefined reads as undefined: it is absent) and each other key to the value it had;
\* an update carrying only a state leaves data as it was, an update carrying only data
\* leaves the state as it was.
C14_UpdateMergesData ==
  [][(ev'.name = "updateSession" /\ ret'.found)
       => LET u == ev'.arg[2] IN
          \A old \in Named(sessions, ev') : \E new \in Named(sessions', ev') :
            /\ \A k \in DOMAIN u.set \ u.drop : k \in DOMAIN new.data /\ new.data[k] = u.set[k]
            /\ \A k \in u.drop : k \notin DOMAIN new.data
            /\ \A k \in DOMAIN old.data \ (DOMAIN u.set \cup u.drop) :
                 k \in DOMAIN new.data /\ new.data[k] = old.data[k]
            /\ DOMAIN new.data \subseteq DOMAIN old.data \cup DOMAIN u.set
            /\ (DOMAIN u.set = {} /\ u.drop = {}) => new.data = old.data
            /\ u.st = NoState => new.state = old.state
            /\ u.st # NoState => new.state = u.st
            /\ ret'.row = new]_vars

\* an update has added key b to a row that keeps its key a
C14_Witness ==
  /\ ev.name = "updateSession" /\ ret.found
  /\ DOMAIN ev.arg[2].set = {"b"} /\ ev.arg[2].drop = {}
  /\ \E s \in Named(sessions, ev) :
       DOMAIN s.data = {"a", "b"} /\ s.data["a"] = 2 /\ s.data["b"] = 1

\* C15: getSession, with or without a type, never returns a session once the clock has
\* reached its expiry, also while the row is still in the table because the cleanup
\* job has not yet removed it.
C15_LookupSkipsExpired ==
  /\ \A c \in StoreChats, ty \in StoreKinds \cup {NoType} :
       \A r \in GetSession(sessions, c, ty, now) : ~(now >= r.expires)
  /\ (ev.name = "getSession" /\ ret.found)
       => /\ ~(now >= ret.row.expires)
          /\ ret.row \in sessions
          /\ ret.row.chatId = ev.chat
          /\ ev.arg # NoType => ret.row.type = ev.arg

\* getSession has returned null while a matching row that expires at this instant is
\* still in the table
C15_Witness ==
  /\ ev.name = "getSession" /\ ~ret.found
  /\ \E s \in sessions :
       /\ s.chatId = ev.chat /\ (ev.arg = NoType \/ s.type = ev.arg)
       /\ s.expires = now
  /\ SweepExpired(sessions, now) = sessions

\* C16: sessions expire after 15 minutes of inactivity.  A session that was visible
\* when updateSession changed it is still visible to getSession at every instant less
\* than 15 minutes after that update.
C16_ExpiryFollowsActivity ==
  [][(/\ ev.name = "updateSession" /\ ret.found /\ ret.row.expires > now
      /\ ev'.name = "tick"
      /\ now' - now < DefaultSessionMinutes * MsPerMinute)
       => \A s \in Named(sessions', ev) : s \in Visible(sessions', s.chatId, now')]_vars

\* C17: in every state of the table, createSession(C, K, data) followed at once by
\* getSession(C) returns the session just created: its id, state "" and the data
\* supplied, also when other unexpired sessions of C were created at the same instant.
C17_LookupReturnsCreated ==
  (ev.name = "createSession" /\ ret.found)
    => /\ ret.row.id = SessionId(ev.chat, ev.arg[1], now)
       /\ ret.row.state = "" /\ ret.row.data = ev.arg[2]
       /\ GetSession(sessions, ev.chat, NoType, now) = {ret.row}

\* C18: createSession always produces an id that no row of the table has, so that its
\* INSERT never fails on the primary key, also for two calls for the same chat and
\* type at the same instant.
C18_CreateNeverCollides ==
  [][ev'.name = "createSession"
       => /\ CanCreate(sessions, ev'.chat, ev'.arg[1], now)
          /\ ret'.found
          /\ ret'.row \in sessions' \ sessions]_vars

\* C19: updateSession(id, ...) reports "not found" (null) and changes nothing when
\* the session with that id has been deleted or has expired; it succeeds exactly for
\* a session that has not expired.
C19_UpdateNeedsLiveSession ==
  [][ev'.name = "updateSession"
       => LET live == \E s \in Named(sessions, ev') : s.expires > now IN
          /\ ret'.found <=> live
          /\ ~live => sessions' = sessions]_vars

\* C20: one run of the cleanup job at time now removes every row with expires < now
\* and leaves every row with expires >= now in the table exactly as it was.
C20_SweepRemovesExpiredOnly ==
  [][ev'.name = "cleanup"
       => /\ \A s \in sessions : s.expires < now => s \notin sessions'
          /\ \A s \in sessions : s.expires >= now => s \in sessions'
          /\ sessions' \subseteq sessions]_vars

\* the cleanup job has just removed the expired rows (SessionCleanup is a step only
\* when it removes one) and kept a row that expires at this very instant
C20_Witness ==
  /\ ev.name = "cleanup"
  /\ \E s \in sessions : s.expires = now

-----------------------------------------------------------------------------
(* Properties of handlers in flight *)

\* C21: the cleanup job does not interfere with the operations of a chat's handlers.
\* Whenever the job runs, every lookup returns what it returned before the job ran, and
\* the updateSession that a suspended handler is about to issue (or has half done)
\* finds and writes the same row as it would have without the job.
C21_SweepLeavesHandlersAlone ==
  [][ev'.name = "cleanup"
       => /\ \A c \in StoreChats, ty \in StoreKinds \cup {NoType} :
               GetSession(sessions', c, ty, now') = GetSession(sessions, c, ty, now)
          /\ \A h \in inflight : RowOf(sessions', h.id) = RowOf(sessions, h.id)]_vars

\* C22: state + data merges are atomic.  When an updateSession call writes, the row
\* keeps every key that is in the table at that moment and that the call does not
\* set itself, and keeps the state in the table when the call sets no state: what
\* another call wrote between this call's SELECT and its UPDATE is not lost.
C22_NoLostUpdate ==
  [][ev'.name = "updateSession.update"
       => LET h == ev'.arg IN
          \A old \in RowOf(sessions, h.id) : \E new \in RowOf(sessions', h.id) :
            /\ \A k \in DOMAIN old.data \ (DOMAIN h.u.set \cup h.u.drop) :
                 k \in DOMAIN new.data /\ new.data[k] = old.data[k]
            /\ h.u.st = NoState => new.state = old.state]_vars

\* everything a chat can observe of the store: its rows and what its lookups return
ViewOf(S, c, t) ==
  [rows |-> {s \in S : s.chatId = c},
   lookup |-> [ty \in StoreKinds \cup {NoType, "authenticated", "auth_attempts"} |->
                 GetSession(S, c, ty, t)],
   flow |-> GetSessionData(S, c, t),
   authenticated |-> IsUserAuthenticated(S, c, t),
   blocked |-> IsUserBlocked(S, c, t).blocked]

\* C23: no cross-chat interference.  No operation done for one chat (create, update,
\* delete, delete by type, extend, authenticate, logout, /cancel) creates, changes or
\* removes a session of another chat or changes what any lookup for the other chat
\* returns.
C23_ChatsDoNotInterfere ==
  [][ev'.name \notin {"tick", "cleanup"}
       => \A b \in AllChats \ {ev'.chat} :
            ViewOf(sessions', b, now') = ViewOf(sessions, b, now)]_vars

\* deleteSessionsByType has just removed the sessions of one type of one chat while
\* the other chat has a session of that type
C23_Witness ==
  /\ ev.name = "deleteSessionsByType" /\ ret.found
  /\ \E b \in AllChats \ {ev.chat} : \E s \in sessions : s.chatId = b /\ s.type = ev.arg

-----------------------------------------------------------------------------
(* Properties of the whole bot *)

FinancialApi ==
  {"getAccounts", "getMutasi", "removeAccount", "addAccount", "verifyAccount",
   "getDanaBanks", "transferDanaBankInit", "transferDanaBankCreate", "transferDanaQris"}

FlowRows(c) == {s \in sessions : s.chatId = c /\ s.type \in {"add_wallet", "dana_transfer"}}

\* the step handles an update of chat c (a command, a callback, a text or a photo)
Handles(c) == steps' = steps + 1 /\ ev'.name # "tick" /\ ev'.chat = c

\* C1: an update handled for a chat that is not authenticated invokes no financial API
\* operation and neither creates nor updates a flow session (add_wallet, dana_transfer).
C1_PasswordGate ==
  [][\A c \in Chats :
       (Handles(c) /\ ~IsUserAuthenticated(sessions, c, now))
       => /\ api' \cap FinancialApi = {}
          /\ FlowRows(c)' \subseteq FlowRows(c)]_vars

\* C2: a chat has at most one unexpired session among the kinds login, add_wallet and
\* dana_transfer.
C2_OneFlowSession ==
  \A c \in Chats :
    Cardinality({s \in Visible(sessions, c, now) :
                   s.type \in {"login", "add_wallet", "dana_transfer"}}) <= 1

\* C3: getSessionData with its default arguments never returns a session of kind
\* authenticated.
C3_LookupSkipsAuthenticated ==
  \A c \in Chats :
    \A s \in GetSessionData(sessions, c, now)
             \cup GetSessionDataExcluding(sessions, c, DefaultExcludeTypes, now) :
      s.type # "authenticated"

OnlyAuthenticated(c) ==
  /\ IsUserAuthenticated(sessions, c, now)
  /\ \A s \in Visible(sessions, c, now) : s.type = "authenticated"

\* C4: for a chat whose only unexpired session is its authenticated session, /add and
\* /transfer are not refused with the 'process in progress' conflict and the chat stays
\* authenticated.
C4_FlowStartsBesideAuthentication ==
  [][\A c \in Chats :
       (OnlyAuthenticated(c) /\ Handles(c) /\ ev'.name \in {"/add", "/transfer"})
       => /\ ret'.tag # "conflict"
          /\ IsUserAuthenticated(sessions', c, now')]_vars

\* the updates that start a flow: /add, /transfer, a wallet button, an account button
FlowStart(e) ==
  \/ e.name \in {"/add", "/transfer", "transfer_account"}
  \/ e.name = "wallet" /\ e.arg # "cancel"

\* C24: a flow start that arrives while the chat's active-session lookup returns a
\* session is rejected and leaves every session of the chat as it was: nothing is
\* created, deleted or updated.
C24_FlowStartRejectedWhileActive ==
  [][\A c \in Chats :
       (Handles(c) /\ FlowStart(ev') /\ GetSessionData(sessions, c, now) # {})
         => /\ sessions' = sessions
            /\ ret'.tag \notin {"ask_phone", "choose_type", "choose_wallet", "choose_account"}]_vars

-----------------------------------------------------------------------------
(* Properties of the flows *)

\* the text is not an acceptable input for the state st
InvalidInput(st, text) ==
  LET t == Trim(text) IN
  CASE st = "awaiting_phone" -> ~IsValidPhoneNumber(t)
    [] st = "awaiting_pin" -> ~(AllDigits(t) /\ Len(t) = 6)
    [] st = "awaiting_otp" -> ~(AllDigits(t) /\ Len(t) \in 4..6)
    [] st = "awaiting_name" -> Len(t) \notin 3..50
    [] st = "awaiting_bank_amount" -> ParseAmount(text).nan \/ ParseAmount(text).value < 10000
    [] st = "awaiting_qris_amount" -> ParseAmount(text).nan \/ ParseAmount(text).value < 1000
    [] st = "awaiting_account_number" -> ~(AllDigits(t) /\ Len(t) \in 8..20)
    [] OTHER -> FALSE

RepromptTags ==
  {"invalid_phone", "invalid_pin", "invalid_otp", "invalid_name", "invalid_amount",
   "invalid_account_number"}

\* C25: a text that fails the validation of the state the session is in (phone number,
\* 6-digit PIN, 4-6 digit OTP, name of 3-50 characters, bank amount >= 10,000, QRIS
\* amount >= 1,000, account number of 8-20 digits) is answered with a re-prompt and
\* leaves the table as it was: no session changes state or data or is deleted, and no
\* external call is made.
C25_InvalidInputChangesNothing ==
  [][(/\ ev'.name = "text" /\ steps' = steps + 1
      /\ \A s \in GetSessionData(sessions, ev'.chat, now) : InvalidInput(s.state, ev'.arg))
       => /\ sessions' = sessions
          /\ api' = {}
          /\ ret'.tag \in RepromptTags]_vars

\* a malformed account number has just been refused, five steps into the transfer flow
C25_Witness ==
  /\ ev.name = "text" /\ ret.tag = "invalid_account_number"
  /\ \E s \in GetSessionData(sessions, ev.chat, now) :
       /\ s.state = "awaiting_account_number"
       /\ Has(s, "bankData") /\ Has(s, "amount") /\ ~Has(s, "accountNumber")

Ids(S) == {s.id : s \in S}

\* C26: a failure of the external API inside a flow step (OTP issuance, account
\* verification, bank list, transfer init, transfer create, QRIS payment) ends the
\* flow: the session the step worked on is deleted.
C26_ApiFailureEndsFlow ==
  [][(steps' = steps + 1 /\ api' # {} /\ ret'.tag = "failed")
       => /\ Ids(sessions') \subseteq Ids(sessions)
          /\ Ids(sessions') # Ids(sessions)]_vars

\* the two texts differ at most in the case of their letters
SameLetters(a, b) == ToLowerCase(a) = ToLowerCase(b)

\* C27: in state awaiting_transfer_confirmation the text KONFIRMASI, in any letter
\* case, issues the finalize-transfer call and deletes the session whether the call
\* succeeds or fails; BATAL, in any letter case, deletes the session without that
\* call; every other text leaves the table as it was, issues no call and re-prompts.
C27_ConfirmationInput ==
  [][(/\ ev'.name = "text" /\ steps' = steps + 1
      /\ \A s \in GetSessionData(sessions, ev'.chat, now) :
           s.state = "awaiting_transfer_confirmation")
       => LET t == Trim(ev'.arg)
              deleted == \E s \in GetSessionData(sessions, ev'.chat, now) :
                           sessions' = sessions \ {s}
          IN  /\ SameLetters(t, KONFIRMASI)
                   => /\ api' = {"transferDanaBankCreate"} /\ deleted
                      /\ ret'.tag \in {"transfer_done", "failed"}
              /\ SameLetters(t, BATAL)
                   => api' = {} /\ deleted /\ ret'.tag = "cancelled"
              /\ (~SameLetters(t, KONFIRMASI) /\ ~SameLetters(t, BATAL))
                   => api' = {} /\ sessions' = sessions /\ ret'.tag = "unrecognized"]_vars

\* a transfer has just been finalized on a lower-case confirmation
C27_Witness ==
  /\ ev.name = "text" /\ ev.arg # KONFIRMASI /\ SameLetters(Trim(ev.arg), KONFIRMASI)
  /\ ret.tag = "transfer_done" /\ api = {"transferDanaBankCreate"}
  /\ FlowRows(ev.chat) = {}

TextIn(st) ==
  /\ ev'.name = "text" /\ steps' = steps + 1
  /\ \A s \in GetSessionData(sessions, ev'.chat, now) : s.state = st

\* the table after the handler changed the one row s into n
Changed(s, n) == sessions' = (sessions \ {s}) \cup {n}

\* C29: in state awaiting_bank_amount an amount below 10,000 is refused and leaves
\* state and data as they were; an amount of at least 10,000, with the bank list
\* loading, is stored and the state advances to selecting_bank_method.
C29_BankAmount ==
  [][TextIn("awaiting_bank_amount")
       => LET amount == ParseAmount(ev'.arg) IN
          /\ (~amount.nan /\ amount.value < 10000)
               => sessions' = sessions /\ api' = {} /\ ret'.tag = "invalid_amount"
          /\ (~amount.nan /\ amount.value >= 10000 /\ ret'.tag # "failed")
               => /\ api' = {"getDanaBanks"}
                  /\ \E s \in GetSessionData(sessions, ev'.chat, now) :
                       \E n \in sessions' :
                         /\ Changed(s, n)
                         /\ n.id = s.id /\ n.state = "selecting_bank_method"
                         /\ Has(n, "amount") /\ n.data["amount"] = amount.value
                         /\ \A k \in DOMAIN s.data \ {"amount", "availableBanks"} :
                              Has(n, k) /\ n.data[k] = s.data[k]]_vars

\* the amount 123456 has just been accepted
C29_Witness ==
  /\ ev.name = "text" /\ ret.tag = "choose_bank_method" /\ api = {"getDanaBanks"}
  /\ \E s \in FlowRows(ev.chat) :
       /\ s.state = "selecting_bank_method"
       /\ Has(s, "amount") /\ s.data["amount"] = 123456 /\ Has(s, "accountId")

\* the banks of a list that a search term matches, by name or by institution id
Matches(banks, term) ==
  {i \in DOMAIN banks :
     \/ Includes(ToLowerCase(banks[i].name), term)
     \/ Includes(ToLowerCase(banks[i].instId), term)}

\* C30: in state searching_bank a query that matches exactly one bank of the cached
\* list stores that bank and advances the state to awaiting_account_number; a query
\* matching no bank or several banks leaves the state as it was, and so does a query
\* of fewer than 2 characters, which is refused before the bank list is looked at.
C30_BankSearch ==
  [][TextIn("searching_bank")
       => LET q == ToLowerCase(Trim(ev'.arg)) IN
          \E s \in GetSessionData(sessions, ev'.chat, now) :
            /\ Len(q) < 2 => sessions' = sessions /\ ret'.tag = "search_too_short"
            /\ (Len(q) >= 2 /\ Has(s, "availableBanks"))
                 => LET banks == s.data["availableBanks"]
                        m == Matches(banks, q)
                    IN  /\ Cardinality(m) = 1
                             => \E n \in sessions' : \E i \in m :
                                  /\ Changed(s, n)
                                  /\ n.id = s.id /\ n.state = "awaiting_account_number"
                                  /\ Has(n, "bankData") /\ n.data["bankData"] = banks[i]
                        /\ Cardinality(m) = 0 => sessions' = sessions
                        /\ Cardinality(m) # 1
                             => \A n \in sessions' : n.id = s.id => n.state = s.state]_vars

\* the query "bca" has just selected the one bank it matches
C30_Witness ==
  /\ ev.name = "text" /\ ret.tag = "ask_account_number"
  /\ Cardinality(Matches(Banks, ToLowerCase(Trim(ev.arg)))) = 1
  /\ \E s \in FlowRows(ev.chat) :
       /\ s.state = "awaiting_account_number"
       /\ Has(s, "bankData") /\ s.data["bankData"].name = <<"B", "C", "A">>

\* C31: once a cancel has deleted the session of a suspended handler, the handler's
\* completion changes no session: its updateSession neither re-creates nor updates a
\* record with the deleted id and leaves every other session of the chat as it is.
C31_CancelledHandlerChangesNothing ==
  [][(ev'.name \in {"updateSession.select", "updateSession.update"} /\ ev'.arg.cancelled)
       => sessions' = sessions]_vars

\* C32: a failure of the store during a session lookup, create or delete is never
\* swallowed: the call ends with the error, never with an ordinary outcome such as
\* "no active session", "not authenticated", "nothing deleted" or "session not found".
C32_StoreFailureReachesCaller ==
  [][(/\ ev'.name \in {"getSession", "getSessionData", "createSession", "deleteSession",
                        "isUserAuthenticated"}
      /\ steps' = steps + 1
      /\ ev'.arg[2] # "ok")
       => ret' = Thrown(ev'.arg[2])]_vars

\* C33: for every configured maxAttempts >= 1 the wrong password that makes the
\* counter of the chat's auth_attempts record reach maxAttempts stamps blockedUntil =
\* now + lockoutWindow on that record, so that isUserBlocked answers blocked right
\* after it; a wrong password that leaves the counter below maxAttempts stamps nothing.
C33_LockoutStampedOnTheLastAttempt ==
  [][(/\ ev'.name = "authenticateUser" /\ steps' = steps + 1
      /\ ev'.arg # BOT_PASSWORD
      /\ env.MAX_LOGIN_ATTEMPTS >= 1)
       => LET c == ev'.chat
              attempts == RecordedAttempts(sessions, c, now) + 1
              record == GetSession(sessions', c, "auth_attempts", now')
          IN  /\ record # {}
              /\ \A s \in record : Attempts(s) = attempts
              /\ attempts = maxAttempts
                   => /\ IsUserBlocked(sessions', c, now').blocked
                      /\ \A s \in record :
                           /\ "blockedUntil" \in DOMAIN s.data
                           /\ s.data["blockedUntil"] = now + TimeoutMinutes * MsPerMinute
              /\ attempts < maxAttempts
                   => \A s \in record : "blockedUntil" \notin DOMAIN s.data]_vars

\* the states of the onboarding, in their order
OnboardingOrder == <<"", "awaiting_phone", "awaiting_pin", "awaiting_otp", "awaiting_name">>

\* C34: the state of an add_wallet session follows the onboarding order "" ->
\* awaiting_phone -> awaiting_pin -> awaiting_otp -> awaiting_name -> deleted.  No text
\* message and no button moves it to a state outside this order or back to an earlier
\* one, and the OTP is requested from the API only for a session that holds a PIN.
\* (The wallet button starts the onboarding anew with a session of its own.)
C34_OnboardingOrder ==
  [][(steps' = steps + 1 /\ ev'.name # "wallet")
       => /\ \A s \in sessions : \A n \in RowOf(sessions', s.id) :
               (s.type = "add_wallet" /\ s.state \in Range(OnboardingOrder))
                 => /\ n.state \in Range(OnboardingOrder)
                    /\ IndexOf(OnboardingOrder, n.state) >= IndexOf(OnboardingOrder, s.state)
          /\ (ev'.name = "verification" /\ "addAccount" \in api')
               => \E s \in GetSessionData(sessions, ev'.chat, now) : Has(s, "pin")]_vars

\* C35: the call that finalizes a payment (transferDanaBankCreate, and likewise the
\* QRIS payment) is issued at most once for a session, also when two messages of the
\* chat that ask for it are handled with their steps interleaved at the awaits.
C35_PaymentIssuedOnce ==
  \A h1, h2 \in inflight :
    (h1.at \in {"called", "done"} /\ h2.at \in {"called", "done"} /\ h1.id = h2.id)
      => h1 = h2

\* C36: /cancel and the cancel-transfer button never end the authentication: the chat
\* is authenticated after the cancel exactly if it was before it.
C36_CancelKeepsAuthentication ==
  [][(ev'.name \in {"/cancel", "cancel_transfer"} /\ steps' = steps + 1)
       => IsUserAuthenticated(sessions', ev'.chat, now')
            = IsUserAuthenticated(sessions, ev'.chat, now)]_vars

\* the flow kind that a state label belongs to
KindOfLabel(st) ==
  IF st = "awaiting_password" THEN "login"
  ELSE IF st \in Range(OnboardingOrder) \ {""} THEN "add_wallet"
  ELSE IF st \in {"select_transfer_type", "awaiting_bank_amount", "awaiting_qris_amount",
                  "awaiting_qris_photo", "selecting_bank_method", "searching_bank",
                  "awaiting_account_number", "awaiting_transfer_confirmation"}
    THEN "dana_transfer"
  ELSE NoType

\* what sdk.transferDanaBankCreate needs from the session
TransferKeys == {"accountId", "amount", "bankData", "accountNumber", "bankAccountIndexNo"}

\* C37: state labels stay within their flow kind: awaiting_password is found only on
\* login sessions, the onboarding labels only on add_wallet sessions, the transfer
\* labels only on dana_transfer sessions; and when the call that finalizes a transfer
\* is issued, the session holds accountId, amount, bankData, accountNumber and the
\* verification token of the transfer init.
C37_LabelsStayInTheirFlow ==
  [][steps' = steps + 1
       => /\ \A s \in sessions' : KindOfLabel(s.state) \in {NoType, s.type}
          /\ "transferDanaBankCreate" \in api'
               => \E s \in GetSessionData(sessions, ev'.chat, now) :
                    TransferKeys \subseteq DOMAIN s.data]_vars

\* the unexpired login sessions of a chat
LoginRows(S, c, t) == {s \in Visible(S, c, t) : s.type = "login"}

\* C38: a wrong password that does not lock the chat leaves the password step
\* reachable: while the chat has an unexpired login session in state awaiting_password
\* and is not blocked, the session the text dispatcher fetches is that login session
\* (the auth_attempts record does not hide it); and after a /login the chat has at
\* most one login session.
C38_PasswordStepStaysReachable ==
  [][steps' = steps + 1
       => LET c == ev'.chat IN
          /\ (/\ ev'.name = "text" /\ ret'.tag = "wrong_password"
              /\ \E s \in LoginRows(sessions', c, now') : s.state = "awaiting_password"
              /\ ~IsUserBlocked(sessions', c, now').blocked)
               => \E s \in GetSessionData(sessions', c, now') :
                    s.type = "login" /\ s.state = "awaiting_password"
          /\ ev'.name = "/login" => Cardinality(LoginRows(sessions', c, now')) <= 1]_vars

====
